---- MODULE Spec2Model ----
(***************************************************************************)
(* Evaluation-Tracker: the automatic flow evaluator (AutoFlowEvaluator,    *)
(* src/lib/autoEvaluator.ts) and the scripted flow evaluator               *)
(* (DynamicFlowEvaluator, both versions kept in src/lib/dynamicEvaluator). *)
(*                                                                         *)
(* One run of one evaluator is modelled as a state machine whose program   *)
(* counter pc walks through run().  The browser and the site under test    *)
(* are the environment: every awaited browser operation either returns or  *)
(* throws, and the site answers a click with one of the pages the clicked  *)
(* element leads to, or with no change.                                    *)
(* The progress callback onProgress is taken to return normally.           *)
(***************************************************************************)
EXTENDS Integers, Sequences, FiniteSets, TLC

\* Largest config.maxSteps a run is started with (the smallest is -1).
MaxStepsBound == 3
\* Largest number of steps of a scripted flow.
MaxFlowSteps == 2
\* Number of runs the host process carries at the same time, and the
\* maxSteps each of them is started with.
MaxRuns == 2
ConcurrentMaxSteps == 2

\* Number of times the heuristics are invoked in a row on one page, and the
\* number of elements of the page whose click or fill throws.
MaxInvocations == 2
MaxFailing == 1

(***************************************************************************)
(* Pattern tables                                                          *)
(***************************************************************************)
NEXT_BUTTON_PATTERNS ==
  << "get started", "start", "begin", "let's go", "take assessment",
     "start assessment", "begin assessment", "take quiz", "start quiz",
     "next", "continue", "proceed", "submit", "send", "confirm", "done",
     "finish", "complete", "tap here", "click here", "i agree", "accept",
     "okay", "ok", "yes", "got it" >>

STOP_PATTERNS ==
  << "sign up", "create account", "log in", "login", "sign in", "checkout",
     "payment", "pay now", "purchase", "buy now", "add to cart", "schedule",
     "book appointment" >>

BLOCKING_PATTERNS ==
  << [type |-> "twoFactor",
      patterns |-> << "two-factor", "two factor", "2fa", "2-fa",
                      "authenticator", "verification code", "security code",
                      "enter the code", "enter code", "6-digit code",
                      "6 digit code", "one-time password",
                      "one time password", "otp" >>],
     [type |-> "emailVerification",
      patterns |-> << "verify your email", "check your email",
                      "email verification", "confirm your email",
                      "we sent you an email", "we've sent you an email",
                      "sent a verification", "sent you a link",
                      "click the link in your email", "check your inbox",
                      "verification link" >>],
     [type |-> "smsVerification",
      patterns |-> << "verify your phone", "verify phone number",
                      "sms verification", "text verification",
                      "we sent a code to", "sent to your phone",
                      "enter the code we sent", "code sent to",
                      "verification text" >>],
     [type |-> "captcha",
      patterns |-> << "captcha", "i'm not a robot", "i am not a robot",
                      "prove you're human", "prove you are human",
                      "human verification", "security check", "recaptcha",
                      "hcaptcha", "cloudflare" >>],
     [type |-> "loginRequired",
      patterns |-> << "please log in", "please login", "please sign in",
                      "you must be logged in", "login required",
                      "sign in required", "authentication required",
                      "access denied", "unauthorized", "session expired" >>],
     [type |-> "accountWall",
      patterns |-> << "create an account to continue", "sign up to continue",
                      "register to continue", "join to continue",
                      "create account to", "sign up to see",
                      "register to see" >>] >>

BlockReasons ==
  [twoFactor |-> "Two-Factor Authentication (2FA) required",
   emailVerification |-> "Email verification required",
   smsVerification |-> "SMS/Phone verification required",
   captcha |-> "CAPTCHA verification required",
   loginRequired |-> "Login/Authentication required",
   accountWall |-> "Account creation required to continue"]

\* An entry of a test-data dictionary: the key, the key in lower case and
\* the value.
Entry(key, lower, value) == [key |-> key, lower |-> lower, value |-> value]

DEFAULT_TEST_DATA ==
  << Entry("firstName", "firstname", "Test"),
     Entry("first_name", "first_name", "Test"),
     Entry("fname", "fname", "Test"),
     Entry("lastName", "lastname", "User"),
     Entry("last_name", "last_name", "User"),
     Entry("lname", "lname", "User"),
     Entry("name", "name", "Test User"),
     Entry("fullName", "fullname", "Test User"),
     Entry("full_name", "full_name", "Test User"),
     Entry("email", "email", "test@example.com"),
     Entry("phone", "phone", "5551234567"),
     Entry("phoneNumber", "phonenumber", "5551234567"),
     Entry("phone_number", "phone_number", "5551234567"),
     Entry("tel", "tel", "5551234567"),
     Entry("mobile", "mobile", "5551234567"),
     Entry("age", "age", "35"),
     Entry("dateOfBirth", "dateofbirth", "1989-06-15"),
     Entry("dob", "dob", "1989-06-15"),
     Entry("birthdate", "birthdate", "1989-06-15"),
     Entry("birthday", "birthday", "06/15/1989"),
     Entry("zip", "zip", "90210"),
     Entry("zipCode", "zipcode", "90210"),
     Entry("zip_code", "zip_code", "90210"),
     Entry("postal", "postal", "90210"),
     Entry("postalCode", "postalcode", "90210"),
     Entry("city", "city", "Los Angeles"),
     Entry("state", "state", "California"),
     Entry("height", "height", "70"),
     Entry("weight", "weight", "180"),
     Entry("username", "username", "testuser"),
     Entry("password", "password", "TestPass123!") >>

endPatterns ==
  << "thank you", "thanks for", "we'll be in touch", "we will contact",
     "your results", "assessment complete", "evaluation complete",
     "you're all set", "all done" >>

(***************************************************************************)
(* The site under test.  A page is what the browser driver reports of it:  *)
(* location, headings, the phrases its lower-cased body and title contain, *)
(* and its elements in document order.  An element records the attributes  *)
(* the selectors of the evaluator look at; `has' is the set of catalogue   *)
(* phrases contained in its lower-cased text (for an <input>, in its       *)
(* value), `lower' its trimmed lower-cased text and `len' the length of    *)
(* its trimmed text; `ident' is the set of lower-cased dictionary keys and  *)
(* fallback fragments contained in its lower-cased name + id + placeholder.*)
(***************************************************************************)
Elem ==
  [tag |-> "div", type |-> "", role |-> "", cls |-> "", data |-> "",
   id |-> "", for |-> "", text |-> "", lower |-> "", len |-> 0,
   head50 |-> "", has |-> {}, value |-> "", valueHas |-> {},
   visible |-> TRUE, enabled |-> TRUE, probe |-> {}, hasInput |-> "",
   ident |-> {}, opt1 |-> "", to |-> {}]

Button(text, lower, n, has, to) ==
  [Elem EXCEPT !.tag = "button", !.text = text, !.lower = lower, !.len = n,
               !.has = has, !.to = to]

EmailInput ==
  [Elem EXCEPT !.tag = "input", !.type = "email", !.id = "email",
               !.ident = {"email"}]

\* <input type="text" name=...>; ident: the fragments of the lower-cased
\* name that the dictionary keys and the fallback tests look for.
TextInput(name, ident) ==
  [Elem EXCEPT !.tag = "input", !.type = "text", !.id = name, !.ident = ident]

CodeInput ==
  [Elem EXCEPT !.tag = "input", !.type = "text", !.id = "code",
               !.probe = {"input[name*=code]"}]

RadioLabel(text, lower, n) ==
  [Elem EXCEPT !.tag = "label", !.hasInput = "radio", !.text = text,
               !.lower = lower, !.len = n]

OptionCard(text, lower, n, to) ==
  [Elem EXCEPT !.tag = "div", !.cls = "option-card", !.text = text,
               !.lower = lower, !.len = n, !.to = to]

StateSelect ==
  [Elem EXCEPT !.tag = "select", !.id = "state", !.opt1 = "CA"]

Checkbox(id) ==
  [Elem EXCEPT !.tag = "input", !.type = "checkbox", !.id = id]

LabelFor(id, text, lower, n, has) ==
  [Elem EXCEPT !.tag = "label", !.for = id, !.text = text, !.lower = lower,
               !.len = n, !.has = has]

\* <input type="submit" value=...>: the phrases are in its value, its
\* textContent is empty.
SubmitInput(value, valueHas, to) ==
  [Elem EXCEPT !.tag = "input", !.type = "submit", !.value = value,
               !.valueHas = valueHas, !.to = to]

Hidden(e) == [e EXCEPT !.visible = FALSE]

CaptchaFrame ==
  [Elem EXCEPT !.tag = "iframe", !.probe = {"iframe[src*=recaptcha]"}]

Page ==
  [pathname |-> "/", search |-> "", title |-> "", h1 |-> "", h2 |-> "",
   body |-> {}, titleHas |-> {}, elems |-> << >>]

Site ==
  [welcome |->
     [Page EXCEPT !.pathname = "/start", !.title = "Intake", !.h1 = "Welcome",
        !.elems = << EmailInput,
                     Button("Continue", "continue", 8, {"continue"},
                            {"welcomeRef", "quiz", "thanks"}) >>],
   welcomeRef |->
     [Page EXCEPT !.pathname = "/start", !.search = "?ref=2", !.title = "Intake 2",
        !.h1 = "Welcome",
        !.elems = << StateSelect,
                     Button("Continue", "continue", 8, {"continue"},
                            {"pick", "verify"}) >>],
   quiz |->
     [Page EXCEPT !.pathname = "/quiz", !.title = "Quiz",
        !.elems = << RadioLabel("Option A", "option a", 8),
                     Button("Next", "next", 4, {"next"},
                            {"plans", "captcha"}) >>],
   pick |->
     [Page EXCEPT !.pathname = "/pick",
        !.elems = << OptionCard("Choice B", "choice b", 8,
                                {"thanks", "static"}) >>],
   thanks |->
     [Page EXCEPT !.pathname = "/done", !.h1 = "Done",
        !.body = {"thank you", "thank you for your submission"},
        !.elems = << Button("Continue", "continue", 8, {"continue"}, {"welcome"}) >>],
   verify |->
     [Page EXCEPT !.pathname = "/verify", !.h1 = "Verify",
        !.body = {"6-digit code", "enter the code", "enter the code we sent"},
        !.elems = << CodeInput,
                     Button("Submit", "submit", 6, {"submit"}, {"thanks"}) >>],
   captcha |->
     [Page EXCEPT !.pathname = "/check",
        !.elems = << CaptchaFrame,
                     Button("Continue", "continue", 8, {"continue"}, {"thanks"}) >>],
   plans |->
     [Page EXCEPT !.pathname = "/plans", !.h1 = "Plans",
        !.elems = << Button("Sign Up Now", "sign up now", 11, {"sign up"}, {"thanks"}),
                     Button("Next", "next", 4, {"next"}, {"thanks"}) >>],
   static |->
     [Page EXCEPT !.pathname = "/about", !.title = "About"],
   newsletter |->
     [Page EXCEPT !.pathname = "/newsletter",
        !.elems = << Checkbox("news"),
                     LabelFor("news", "Sign up for our newsletter",
                              "sign up for our newsletter", 26, {"sign up"}),
                     Button("Continue", "continue", 8, {"continue"}, {"thanks"}) >>],
   cart |->
     [Page EXCEPT !.pathname = "/cart",
        !.elems = << SubmitInput("Continue to checkout", {"continue", "checkout"},
                                 {"thanks"}) >>],
   wizard |->
     [Page EXCEPT !.pathname = "/wizard",
        !.elems = << Hidden(Button("Next", "next", 4, {"next"}, {})),
                     Button("Next", "next", 4, {"next"}, {"thanks"}) >>],
   landing |->
     [Page EXCEPT !.pathname = "/landing",
        !.elems = << Button("Submit", "submit", 6, {"submit"}, {}),
                     Button("Next", "next", 4, {"next"}, {}),
                     Button("Sign Up", "sign up", 7, {"sign up"}, {}),
                     Button("Get Started", "get started", 11,
                            {"get started", "start"}, {"thanks"}) >>],
   hero |->
     [Page EXCEPT !.pathname = "/hero",
        !.elems = << Hidden(Button("Get Started", "get started", 11,
                                   {"get started", "start"}, {})),
                     Button("Next", "next", 4, {"next"}, {"thanks"}),
                     Button("Get Started", "get started", 11,
                            {"get started", "start"}, {"thanks"}) >>],
   gate |->
     [Page EXCEPT !.pathname = "/gate",
        !.elems = << Hidden(Button("Sign Up", "sign up", 7, {"sign up"}, {})),
                     Button("Sign Up", "sign up", 7, {"sign up"}, {}) >>],
   profile |->
     [Page EXCEPT !.pathname = "/profile", !.h1 = "Profile",
        !.elems = << [EmailInput EXCEPT !.value = "foo@bar.com"],
                     [StateSelect EXCEPT !.value = "NY"],
                     TextInput("workEmail", {"workemail", "email"}),
                     TextInput("city", {"city"}),
                     Button("Continue", "continue", 8, {"continue"}, {"thanks"}) >>],
   options |->
     [Page EXCEPT !.pathname = "/options",
        !.elems = << [OptionCard("I would like to compare all of the available plans first",
                                 "i would like to compare all of the available plans first", 56, {"thanks"})
                        EXCEPT !.head50 = "I would like to compare all of the available plans"],
                     OptionCard("Choice C", "choice c", 8, {"thanks"}) >>] ]

Pages == DOMAIN Site

\* The state of a freshly loaded page: nothing selected, nothing filled.
FreshDom(p) == [page |-> p, selected |-> {}, filled |-> {}]

(***************************************************************************)
(* The heuristics, as functions of the page state dom = [page, selected,   *)
(* filled]: selected and filled are the indices of the elements the run    *)
(* has selected or filled on the page since it was loaded.                 *)
(***************************************************************************)
ElemsOf(dom) == Site[dom.page].elems

Min(S) == CHOOSE x \in S : \A y \in S : x <= y

\* page.$(selector): the index of the first element in document order that
\* the selector (a test on elements) matches; 0 when there is none.
First(elems, Matches(_)) ==
  LET hits == { i \in 1..Len(elems) : Matches(elems[i]) }
  IN  IF hits = {} THEN 0 ELSE Min(hits)

IsButtonTag(e) == e.tag = "button"

ButtonTexts(elems) ==
  LET bs == SelectSeq(elems, IsButtonTag)
  IN  [i \in 1..Len(bs) |-> bs[i].text]

PageUrl(dom) == << "url", Site[dom.page].pathname, Site[dom.page].search >>

\* getPageContentHash: pathname|h1|h2|button texts; the page URL when the
\* evaluation in the page throws.
getPageContentHash(dom, evaluateThrows) ==
  IF evaluateThrows
  THEN PageUrl(dom)
  ELSE << "content", Site[dom.page].pathname, Site[dom.page].h1,
          Site[dom.page].h2, ButtonTexts(ElemsOf(dom)) >>

NotBlocked == [isBlocked |-> FALSE, reason |-> "", type |-> ""]

blockingInputSelectors ==
  << "input[name*=otp]", "input[name*=code]", "input[name*=verification]",
     "input[placeholder*=verification code]", "input[placeholder*=enter code]",
     "input[aria-label*=verification]", "input[aria-label*=code]",
     "[class*=captcha]", "[id*=captcha]", "iframe[src*=recaptcha]",
     "iframe[src*=hcaptcha]", "iframe[title*=recaptcha]" >>

\* A classifier in which the last matching category of the table wins.
checkForBlockersLastCategory(dom, readThrows) ==
  LET p == Site[dom.page]
      combinedText == p.body \cup p.titleHas
      textHits == { i \in 1..Len(BLOCKING_PATTERNS) :
                      \E j \in 1..Len(BLOCKING_PATTERNS[i].patterns) :
                         BLOCKING_PATTERNS[i].patterns[j] \in combinedText }
      probeHits == { s \in 1..Len(blockingInputSelectors) :
                      LET Sel(e) == blockingInputSelectors[s] \in e.probe
                          k == First(p.elems, Sel)
                      IN  k # 0 /\ p.elems[k].visible }
      last == CHOOSE x \in textHits : \A y \in textHits : y <= x
  IN  IF readThrows THEN NotBlocked
      ELSE IF textHits # {}
      THEN [isBlocked |-> TRUE,
            reason |-> BlockReasons[BLOCKING_PATTERNS[last].type],
            type |-> BLOCKING_PATTERNS[last].type]
      ELSE IF probeHits # {}
      THEN [isBlocked |-> TRUE,
            reason |-> "Verification input detected (code entry required)",
            type |-> "verificationInput"]
      ELSE NotBlocked

\* checkForBlockers: the first category, in table order, with a pattern in
\* body + " " + title; then the first match of each probe selector, if it
\* is visible; not blocked when reading the page throws.
checkForBlockers(dom, readThrows) ==
  LET p == Site[dom.page]
      combinedText == p.body \cup p.titleHas
      textHits == { i \in 1..Len(BLOCKING_PATTERNS) :
                      \E j \in 1..Len(BLOCKING_PATTERNS[i].patterns) :
                         BLOCKING_PATTERNS[i].patterns[j] \in combinedText }
      probeHits == { s \in 1..Len(blockingInputSelectors) :
                      LET Sel(e) == blockingInputSelectors[s] \in e.probe
                          k == First(p.elems, Sel)
                      IN  k # 0 /\ p.elems[k].visible }
  IN  IF readThrows THEN NotBlocked
      ELSE IF textHits # {}
      THEN [isBlocked |-> TRUE,
            reason |-> BlockReasons[BLOCKING_PATTERNS[Min(textHits)].type],
            type |-> BLOCKING_PATTERNS[Min(textHits)].type]
      ELSE IF probeHits # {}
      THEN [isBlocked |-> TRUE,
            reason |-> "Verification input detected (code entry required)",
            type |-> "verificationInput"]
      ELSE NotBlocked

\* isEndOfFlow, first part: a visible first match of
\* button:has-text(p), a:has-text(p) for a stop pattern p.
StopElementVisible(dom) ==
  LET p == Site[dom.page]
  IN  \E s \in 1..Len(STOP_PATTERNS) :
         LET Sel(e) == e.tag \in {"button", "a"} /\ STOP_PATTERNS[s] \in e.has
             k == First(p.elems, Sel)
         IN  k # 0 /\ p.elems[k].visible

\* isEndOfFlow, second part: an end pattern in the lower-cased body text.
EndTextFound(dom) ==
  \E s \in 1..Len(endPatterns) : endPatterns[s] \in Site[dom.page].body

\* isEndOfFlow without the search of the body text.
isEndOfFlowButtonsOnly(dom) == StopElementVisible(dom)

isEndOfFlow(dom) == StopElementVisible(dom) \/ EndTextFound(dom)

optionSelectors ==
  << "label:has(input[type=radio])", "label:has(input[type=checkbox])",
     "[role=option]", "[role=radio]", "[role=checkbox]",
     "[data-option]", "[data-value]", "[data-answer]",
     ".option-card", ".answer-option", ".choice-card", ".selection-item",
     ".quiz-option", ".question-option",
     "li[class*=option]", "li[class*=choice]",
     "div[class*=option]:not(button)", "div[class*=choice]:not(button)",
     "button[class*=option]", "button[class*=choice]",
     "button[class*=answer]" >>

\* The class names of the site that contain the given fragment.
ClassHas(fragment) ==
  CASE fragment = "option" ->
         {"option", "option-card", "answer-option", "quiz-option", "question-option"}
    [] fragment = "choice" -> {"choice", "choice-card"}
    [] fragment = "answer" -> {"answer", "answer-option"}
    [] fragment = "next" -> {"next", "btn-next"}
    [] fragment = "continue" -> {"continue", "btn-continue"}
    [] fragment = "submit" -> {"submit", "btn-submit"}
    [] OTHER -> {}

MatchesOption(sel, e) ==
  CASE sel = "label:has(input[type=radio])" -> e.tag = "label" /\ e.hasInput = "radio"
    [] sel = "label:has(input[type=checkbox])" -> e.tag = "label" /\ e.hasInput = "checkbox"
    [] sel = "[role=option]" -> e.role = "option"
    [] sel = "[role=radio]" -> e.role = "radio"
    [] sel = "[role=checkbox]" -> e.role = "checkbox"
    [] sel = "[data-option]" -> e.data = "option"
    [] sel = "[data-value]" -> e.data = "value"
    [] sel = "[data-answer]" -> e.data = "answer"
    [] sel = ".option-card" -> e.cls = "option-card"
    [] sel = ".answer-option" -> e.cls = "answer-option"
    [] sel = ".choice-card" -> e.cls = "choice-card"
    [] sel = ".selection-item" -> e.cls = "selection-item"
    [] sel = ".quiz-option" -> e.cls = "quiz-option"
    [] sel = ".question-option" -> e.cls = "question-option"
    [] sel = "li[class*=option]" -> e.tag = "li" /\ e.cls \in ClassHas("option")
    [] sel = "li[class*=choice]" -> e.tag = "li" /\ e.cls \in ClassHas("choice")
    [] sel = "div[class*=option]:not(button)" -> e.tag = "div" /\ e.cls \in ClassHas("option")
    [] sel = "div[class*=choice]:not(button)" -> e.tag = "div" /\ e.cls \in ClassHas("choice")
    [] sel = "button[class*=option]" -> e.tag = "button" /\ e.cls \in ClassHas("option")
    [] sel = "button[class*=choice]" -> e.tag = "button" /\ e.cls \in ClassHas("choice")
    [] sel = "button[class*=answer]" -> e.tag = "button" /\ e.cls \in ClassHas("answer")
    [] OTHER -> FALSE

\* The trimmed text, uncut.
WholeText(e) == e.text

\* String.prototype.substring(0, 50) of the trimmed text.
Substring50(e) == IF e.len <= 50 THEN e.text ELSE e.head50

HasStopText(e) == \E s \in 1..Len(STOP_PATTERNS) : STOP_PATTERNS[s] \in e.has

NoOption == [clicked |-> 0, marks |-> 0, label |-> ""]

\* selectOptionOnPage, given the elements of the page and their number.
\* failing is the set of elements whose click throws.
\* The result names the element clicked (0: the function returns null),
\* the element the click marks as selected, and the label returned.
selectOptionAmong(elems, n, dom, failing) ==
  LET IsSelected(i) ==
        IF elems[i].hasInput # "" THEN i \in dom.selected
        ELSE elems[i].cls \in {"selected", "active"} \/ i \in dom.selected
      IsNavButton(e) ==
        (\E q \in 1..Len(NEXT_BUTTON_PATTERNS) : e.lower = NEXT_BUTTON_PATTERNS[q])
          \/ HasStopText(e)
      Eligible(i) ==
        /\ elems[i].visible
        /\ ~IsSelected(i)
        /\ ~(IsNavButton(elems[i]) \/ elems[i].len > 100 \/ elems[i].len < 1)
        /\ i \notin failing
      \* (selector, element) pairs in the order the two loops visit them
      ranks == { (s - 1) * (n + 1) + i : s \in 1..Len(optionSelectors), i \in 1..n }
      hits == { r \in ranks :
                 LET s == (r \div (n + 1)) + 1
                     i == r % (n + 1)
                 IN  i # 0 /\ MatchesOption(optionSelectors[s], elems[i]) /\ Eligible(i) }
      \* fallback: unchecked radio buttons and checkboxes, clicked directly
      \* or through the label that names them
      LabelOf(i) ==
        LET Sel(e) == e.tag = "label" /\ e.for = elems[i].id
        IN  IF elems[i].id = "" THEN 0 ELSE First(elems, Sel)
      Target(i) == IF LabelOf(i) # 0 THEN LabelOf(i) ELSE i
      inputs == { i \in 1..n :
                    /\ elems[i].tag = "input"
                    /\ elems[i].type \in {"radio", "checkbox"}
                    /\ i \notin dom.selected
                    /\ elems[i].visible
                    /\ Target(i) \notin failing }
  IN  IF hits # {}
      THEN LET i == Min(hits) % (n + 1)
           IN  [clicked |-> i, marks |-> i, label |-> Substring50(elems[i])]
      ELSE IF inputs # {}
      THEN LET i == Min(inputs)
               l == LabelOf(i)
           IN  IF l # 0
               THEN [clicked |-> l, marks |-> i,
                     label |-> IF elems[l].len > 0 THEN Substring50(elems[l])
                               ELSE "Option selected"]
               ELSE [clicked |-> i, marks |-> i, label |-> "Option selected"]
      ELSE NoOption

\* selectOptionOnPage on the elements of the page shown.
selectOptionOnPage(dom, failing) ==
  selectOptionAmong(ElemsOf(dom), Len(ElemsOf(dom)), dom, failing)

fallbackSelectors ==
  << "button[type=submit]", "input[type=submit]", "button.primary",
     "button.btn-primary", "a.btn-primary", "button.cta", "a.cta",
     "button[class*=next]", "button[class*=continue]",
     "button[class*=submit]", "a[class*=next]", "a[class*=continue]" >>

MatchesFallback(sel, e) ==
  CASE sel = "button[type=submit]" -> e.tag = "button" /\ e.type = "submit"
    [] sel = "input[type=submit]" -> e.tag = "input" /\ e.type = "submit"
    [] sel = "button.primary" -> e.tag = "button" /\ e.cls = "primary"
    [] sel = "button.btn-primary" -> e.tag = "button" /\ e.cls = "btn-primary"
    [] sel = "a.btn-primary" -> e.tag = "a" /\ e.cls = "btn-primary"
    [] sel = "button.cta" -> e.tag = "button" /\ e.cls = "cta"
    [] sel = "a.cta" -> e.tag = "a" /\ e.cls = "cta"
    [] sel = "button[class*=next]" -> e.tag = "button" /\ e.cls \in ClassHas("next")
    [] sel = "button[class*=continue]" -> e.tag = "button" /\ e.cls \in ClassHas("continue")
    [] sel = "button[class*=submit]" -> e.tag = "button" /\ e.cls \in ClassHas("submit")
    [] sel = "a[class*=next]" -> e.tag = "a" /\ e.cls \in ClassHas("next")
    [] sel = "a[class*=continue]" -> e.tag = "a" /\ e.cls \in ClassHas("continue")
    [] OTHER -> FALSE

\* The five element shapes clickNextButton tries for a phrase.
MatchesShape(shape, pattern, e) ==
  CASE shape = 1 -> e.tag = "button" /\ pattern \in e.has
    [] shape = 2 -> e.tag = "a" /\ pattern \in e.has
    [] shape = 3 -> e.role = "button" /\ pattern \in e.has
    [] shape = 4 -> e.tag = "input" /\ e.type = "submit" /\ pattern \in e.valueHas
    [] shape = 5 -> e.tag = "input" /\ e.type = "button" /\ pattern \in e.valueHas
    [] OTHER -> FALSE

\* clickNextButton, given the elements of the page: the element clicked, 0
\* when the function returns false.
clickNextAmong(elems, failing) ==
  LET Qualifies(k) ==
        /\ k # 0
        /\ elems[k].visible /\ elems[k].enabled
        /\ ~HasStopText(elems[k])
        /\ k \notin failing
      Found(q, shape) ==
        LET Sel(e) == MatchesShape(shape, NEXT_BUTTON_PATTERNS[q], e)
        IN  First(elems, Sel)
      ranks == { (q - 1) * 5 + (shape - 1) :
                   q \in 1..Len(NEXT_BUTTON_PATTERNS), shape \in 1..5 }
      hits == { r \in ranks : Qualifies(Found((r \div 5) + 1, (r % 5) + 1)) }
      FoundFallback(s) ==
        LET Sel(e) == MatchesFallback(fallbackSelectors[s], e)
        IN  First(elems, Sel)
      fallbackHits == { s \in 1..Len(fallbackSelectors) : Qualifies(FoundFallback(s)) }
  IN  IF hits # {}
      THEN Found((Min(hits) \div 5) + 1, (Min(hits) % 5) + 1)
      ELSE IF fallbackHits # {}
      THEN FoundFallback(Min(fallbackHits))
      ELSE 0

\* clickNextButton on the elements of the page shown.
clickNextButton(dom, failing) == clickNextAmong(ElemsOf(dom), failing)

\* { ...DEFAULT_TEST_DATA, ...this.config.testData }: the default entries
\* in their order, each with the caller's value if the caller has the key,
\* then the caller's other entries in the caller's order.
HasKey(data, key) == \E j \in 1..Len(data) : data[j].key = key

ValueOf(data, key) ==
  IF HasKey(data, key)
  THEN data[CHOOSE j \in 1..Len(data) : data[j].key = key].value
  ELSE ""

IsDefaultKey(entry) == HasKey(DEFAULT_TEST_DATA, entry.key)

IsNewKey(entry) == ~IsDefaultKey(entry)

mergeTestData(default, caller) ==
  [j \in 1..Len(default) |->
     IF HasKey(caller, default[j].key)
     THEN [default[j] EXCEPT !.value = ValueOf(caller, default[j].key)]
     ELSE default[j]]
    \o SelectSeq(caller, IsNewKey)

\* The value autoFillForms finds for an input: the value of the first entry
\* whose lower-cased key the identifier contains; without one (or with an
\* empty one), the chain of tests on the type and the identifier.
findTestData(testData, e) ==
  LET hits == { j \in 1..Len(testData) : testData[j].lower \in e.ident }
      value == IF hits = {} THEN "" ELSE testData[Min(hits)].value
      type == IF e.type = "" THEN "text" ELSE e.type
      Includes(fragment) == fragment \in e.ident
  IN  IF value # "" THEN value
      ELSE IF type = "email" \/ Includes("email") THEN ValueOf(testData, "email")
      ELSE IF type = "tel" \/ Includes("phone") \/ Includes("tel")
      THEN ValueOf(testData, "phone")
      ELSE IF type = "date" \/ Includes("birth") \/ Includes("dob")
      THEN ValueOf(testData, "dateOfBirth")
      ELSE IF Includes("zip") \/ Includes("postal") THEN ValueOf(testData, "zip")
      ELSE IF Includes("first") /\ Includes("name") THEN ValueOf(testData, "firstName")
      ELSE IF Includes("last") /\ Includes("name") THEN ValueOf(testData, "lastName")
      ELSE IF Includes("name") THEN ValueOf(testData, "name")
      ELSE IF Includes("city") THEN ValueOf(testData, "city")
      ELSE IF Includes("state") THEN ValueOf(testData, "state")
      ELSE IF Includes("age") THEN ValueOf(testData, "age")
      ELSE IF Includes("height") THEN ValueOf(testData, "height")
      ELSE IF Includes("weight") THEN ValueOf(testData, "weight")
      ELSE ""

\* The value an element of the page holds: what the run set it to, else the
\* value the page was loaded with.
CurrentValue(testData, d, i) ==
  LET e == ElemsOf(d)[i]
  IN  IF i \notin d.filled THEN e.value
      ELSE IF e.tag = "select" THEN e.opt1
      ELSE findTestData(testData, e)

(***************************************************************************)
(* State of one run                                                        *)
(***************************************************************************)
VARIABLES
  engine,             \* which evaluator runs: "auto", "dynamicV1", "dynamicV2";
                      \* "concurrent": several auto runs; "heuristics": the
                      \* heuristics invoked on a loaded page
  config,             \* AutoEvalConfig: maxSteps, autoFillForms, startUrl, websiteName
  flow,               \* DynamicFlow.steps: a sequence of [continueOnError]
  pc,                 \* position of the run in run()
  browser,            \* this.browser: "null", "open" or "closed"
  dom,                \* the page the browser shows, and what was selected and filled
  stepNumber,         \* stepNumber (auto); the loop index i + 1 (scripted)
  pageContentHashes,  \* this.pageContentHashes
  steps,              \* steps: StepResult[]
  selectedOption,     \* selectedOption of the current step ("" is null)
  thrown,             \* the message of the exception being handled
  completedSteps,     \* the scripted evaluator's counters
  failedSteps,
  reportsStore,       \* the results store, keyed by evaluation id
  screenshotsStore,   \* the screenshot store, keyed by evaluation id and step
  report,             \* the report run() returned
  events,             \* what onProgress received, in order
  hashLog,            \* history: the fingerprint computed at each step
  interactions,       \* history: the page-mutating browser operations issued
  closeCount,         \* history: number of browser.close() calls
  usedAfterClose      \* history: a browser operation was issued after close()

vars ==
  << engine, config, flow, pc, browser, dom, stepNumber, pageContentHashes,
     steps, selectedOption, thrown, completedSteps, failedSteps, reportsStore,
     screenshotsStore, report, events, hashLog, interactions, closeCount,
     usedAfterClose >>

evaluationId == "run-1"

\* autoFillForms: the elements it sets (inputs and textareas that are
\* visible, empty and for which test data is found; visible selects with a
\* second option that has a value).  Its result is the number of them.
autoFillAmong(elems, testData, d, failing) ==
  LET inputs == { i \in 1..Len(elems) :
                    /\ elems[i].tag \in {"input", "textarea"}
                    /\ elems[i].type \notin {"hidden", "submit", "button", "radio", "checkbox"}
                    /\ elems[i].visible
                    /\ elems[i].value = "" /\ i \notin d.filled
                    /\ findTestData(testData, elems[i]) # ""
                    /\ i \notin failing }
      selects == { i \in 1..Len(elems) :
                     /\ elems[i].tag = "select"
                     /\ elems[i].visible
                     /\ elems[i].opt1 # ""
                     /\ i \notin failing }
  IN  inputs \cup selects

\* autoFillForms on the elements of the page shown, with the merged test data.
autoFillForms(d, failing) ==
  autoFillAmong(ElemsOf(d), mergeTestData(DEFAULT_TEST_DATA, config.testData),
                d, failing)

NoReport ==
  [id |-> "", flowId |-> "", flowName |-> "", totalSteps |-> 0,
   completedSteps |-> 0, failedSteps |-> 0, status |-> "none", steps |-> << >>]

NoDom == [page |-> "about:blank", selected |-> {}, filled |-> {}]

Event(type, k, msg) == [type |-> type, stepNumber |-> k, message |-> msg]

Emit(e) == events' = Append(events, e)

Emit2(e1, e2) == events' = events \o << e1, e2 >>

\* Every call on the browser or the page goes through here.
BrowserOp == usedAfterClose' = (usedAfterClose \/ browser = "closed")

Interact(kind, targets) ==
  interactions' = Append(interactions,
                         [stepNumber |-> stepNumber, kind |-> kind,
                          page |-> dom.page, targets |-> targets])

Throw(message) == /\ thrown' = message
                  /\ pc' = "catch"

AutoConfigs ==
  [maxSteps : (-1)..MaxStepsBound, autoFillForms : BOOLEAN,
   startUrl : {"https://site.test/start", "not a url"},
   websiteName : {"", "Site"}, testData : {<< >>}]

NoConfig ==
  [maxSteps |-> 0, autoFillForms |-> FALSE, startUrl |-> "https://site.test/start",
   websiteName |-> "Site", testData |-> << >>]

Flows ==
  UNION { [1..n -> [continueOnError : BOOLEAN]] : n \in 0..MaxFlowSteps }

Init ==
  /\ \/ /\ engine = "auto"
        /\ config \in { c \in AutoConfigs :
                          c.websiteName = "" => c.startUrl = "not a url" }
        /\ flow = << >>
     \/ /\ engine \in {"dynamicV1", "dynamicV2"}
        /\ config = NoConfig
        /\ flow \in Flows
  /\ pc = "start"
  /\ browser = "null"
  /\ dom = NoDom
  /\ stepNumber = 0
  /\ pageContentHashes = {}
  /\ steps = << >>
  /\ selectedOption = ""
  /\ thrown = ""
  /\ completedSteps = 0
  /\ failedSteps = 0
  /\ reportsStore = << >>
  /\ screenshotsStore = << >>
  /\ report = NoReport
  /\ events = << >>
  /\ hashLog = << >>
  /\ interactions = << >>
  /\ closeCount = 0
  /\ usedAfterClose = FALSE

(***************************************************************************)
(* AutoFlowEvaluator.run                                                   *)
(***************************************************************************)
AutoStart ==
  /\ engine = "auto" /\ pc = "start"
  /\ Emit(Event("init", 0, "Starting automatic flow evaluation..."))
  /\ pc' = "connect"
  /\ UNCHANGED << engine, config, flow, browser, dom, stepNumber,
                  pageContentHashes, steps, selectedOption, thrown,
                  completedSteps, failedSteps, reportsStore, report, hashLog,
                  interactions, closeCount, usedAfterClose >>
  /\ UNCHANGED screenshotsStore

\* chromium.connect / chromium.launch, by the environment of the process:
\* a Browserless token, a serverless host without one, or a local host.
AutoConnect ==
  /\ engine = "auto" /\ pc = "connect"
  /\ \E host \in {"token", "serverless", "local"}, ok \in BOOLEAN :
       \/ /\ host = "token" /\ ok
          /\ browser' = "open"
          /\ Emit(Event("info", 0, "Connected to cloud browser"))
          /\ pc' = "newPage" /\ UNCHANGED thrown
       \/ /\ host = "serverless"
          /\ Throw("Cloud browser token not configured")
          /\ UNCHANGED << browser, events >>
       \/ /\ host = "local" /\ ok
          /\ browser' = "open"
          /\ pc' = "newPage" /\ UNCHANGED << thrown, events >>
       \/ /\ host \in {"token", "local"} /\ ~ok
          /\ Throw("browser launch failed")
          /\ UNCHANGED << browser, events >>
  /\ UNCHANGED << engine, config, flow, dom, stepNumber, pageContentHashes,
                  steps, selectedOption, completedSteps, failedSteps,
                  reportsStore, report, hashLog, interactions, closeCount,
                  usedAfterClose >>
  /\ UNCHANGED screenshotsStore

\* browser.newContext, context.newPage
AutoNewPage ==
  /\ engine = "auto" /\ pc = "newPage"
  /\ BrowserOp
  /\ \/ /\ Emit(Event("info", 0, "Navigating to startUrl"))
        /\ pc' = "goto" /\ UNCHANGED thrown
     \/ /\ Throw("browser has been closed")
        /\ UNCHANGED events
  /\ UNCHANGED << engine, config, flow, browser, dom, stepNumber,
                  pageContentHashes, steps, selectedOption, completedSteps,
                  failedSteps, reportsStore, report, hashLog, interactions,
                  closeCount >>
  /\ UNCHANGED screenshotsStore

\* page.goto(startUrl): throws on a URL that is none, may throw on any other
\* (unreachable host, timeout); otherwise the site shows one of its pages.
AutoGoto ==
  /\ engine = "auto" /\ pc = "goto"
  /\ BrowserOp
  /\ \/ /\ config.startUrl = "https://site.test/start"
        /\ \E p \in Pages : dom' = FreshDom(p)
        /\ pc' = "loop" /\ UNCHANGED thrown
     \/ /\ Throw("navigation failed")
        /\ UNCHANGED dom
  /\ UNCHANGED << engine, config, flow, browser, stepNumber,
                  pageContentHashes, steps, selectedOption, completedSteps,
                  failedSteps, reportsStore, report, events, hashLog,
                  interactions, closeCount >>
  /\ UNCHANGED screenshotsStore

\* while (stepNumber < this.config.maxSteps) { stepNumber++; ...
AutoLoop ==
  /\ engine = "auto" /\ pc = "loop"
  /\ IF stepNumber < config.maxSteps
     THEN /\ stepNumber' = stepNumber + 1
          /\ pc' = "stabilize"
     ELSE /\ pc' = "afterLoop"
          /\ UNCHANGED stepNumber
  /\ selectedOption' = ""
  /\ UNCHANGED << engine, config, flow, browser, dom, pageContentHashes,
                  steps, thrown, completedSteps, failedSteps, reportsStore,
                  report, events, hashLog, interactions, closeCount,
                  usedAfterClose >>
  /\ UNCHANGED screenshotsStore

\* A loop body that starts with the interactions.
AutoStabilizeThenInteract ==
  /\ engine = "auto" /\ pc = "stabilize"
  /\ BrowserOp
  /\ \/ pc' = "select" /\ UNCHANGED thrown
     \/ Throw("page crashed")
  /\ UNCHANGED << engine, config, flow, browser, dom, stepNumber,
                  pageContentHashes, steps, selectedOption, completedSteps,
                  failedSteps, reportsStore, report, events, hashLog,
                  interactions, closeCount >>
  /\ UNCHANGED screenshotsStore

\* page.waitForTimeout(1500); waitForPageReady() swallows what it throws
AutoStabilize ==
  /\ engine = "auto" /\ pc = "stabilize"
  /\ BrowserOp
  /\ \/ pc' = "fingerprint" /\ UNCHANGED thrown
     \/ Throw("page crashed")
  /\ UNCHANGED << engine, config, flow, browser, dom, stepNumber,
                  pageContentHashes, steps, selectedOption, completedSteps,
                  failedSteps, reportsStore, report, events, hashLog,
                  interactions, closeCount >>
  /\ UNCHANGED screenshotsStore

\* A loop check that spares the third step as well.
LoopDetectedAfterThree(hashes, pageHash, k) == pageHash \in hashes /\ k > 3

LoopDetected(hashes, pageHash, k) == pageHash \in hashes /\ k > 2

\* page.url(), getPageContentHash(), loop detection, step-start
AutoFingerprint ==
  /\ engine = "auto" /\ pc = "fingerprint"
  /\ BrowserOp
  /\ \E evaluateThrows \in BOOLEAN :
       LET pageHash == getPageContentHash(dom, evaluateThrows)
       IN  /\ hashLog' = Append(hashLog, pageHash)
           /\ IF LoopDetected(pageContentHashes, pageHash, stepNumber)
              THEN /\ Emit(Event("info", 0, "Detected page loop (same content), stopping evaluation"))
                   /\ pc' = "afterLoop"
                   /\ UNCHANGED pageContentHashes
              ELSE /\ pageContentHashes' = pageContentHashes \cup {pageHash}
                   /\ Emit(Event("step-start", stepNumber, ""))
                   /\ pc' = "collect"
  /\ UNCHANGED << engine, config, flow, browser, dom, stepNumber, steps,
                  selectedOption, thrown, completedSteps, failedSteps,
                  reportsStore, report, interactions, closeCount >>
  /\ UNCHANGED screenshotsStore

\* h1 || pageTitle || `Step ${stepNumber}`
StepName(p, k) ==
  IF Site[p].h1 # "" THEN Site[p].h1
  ELSE IF Site[p].title # "" THEN Site[p].title
  ELSE "Step " \o ToString(k)

\* A key that names the step only.
screenshotKeyWithoutId(id, k) == << "/screenshots", "", k >>

\* takeScreenshot: the key names the evaluation and the step
screenshotKey(id, k) == << "/screenshots", id, k >>

\* screenshotsStore.set(screenshotKey, dataUrl): the image of the page shown
StoreScreenshot(store, id, k, p) ==
  [key \in DOMAIN store \cup {screenshotKey(id, k)} |->
     IF key = screenshotKey(id, k) THEN << "png", p >> ELSE store[key]]

StepResult(k, name, url, errors) ==
  [stepNumber |-> k, name |-> name, url |-> url, errors |-> errors]

\* collectPageData, page.title, getH1, takeScreenshot; steps.push; step-complete
AutoCollect ==
  /\ engine = "auto" /\ pc = "collect"
  /\ BrowserOp
  /\ \/ /\ screenshotsStore' = StoreScreenshot(screenshotsStore, evaluationId,
                                               stepNumber, dom.page)
        /\ steps' = Append(steps, StepResult(stepNumber, StepName(dom.page, stepNumber),
                                             PageUrl(dom), << >>))
        /\ Emit(Event("step-complete", stepNumber, ""))
        /\ pc' = "blockers" /\ UNCHANGED thrown
     \/ /\ Throw("page crashed")
        /\ UNCHANGED << steps, events, screenshotsStore >>
  /\ UNCHANGED << engine, config, flow, browser, dom, stepNumber,
                  pageContentHashes, selectedOption, completedSteps,
                  failedSteps, reportsStore, report, hashLog, interactions,
                  closeCount >>

PushError(ss, k, message) ==
  [ss EXCEPT ![k].errors = Append(@, message)]

\* A loop that only observes the page of the final allowed step.
AutoBlockersObservingLastOnly ==
  /\ engine = "auto" /\ pc = "blockers"
  /\ BrowserOp
  /\ \E readThrows \in BOOLEAN :
       LET blockCheck == checkForBlockers(dom, readThrows)
       IN  IF blockCheck.isBlocked
           THEN /\ Emit(Event("blocked", stepNumber, blockCheck.reason))
                /\ steps' = PushError(steps, Len(steps), "BLOCKED: " \o blockCheck.reason)
                /\ pc' = "afterLoop"
           ELSE /\ pc' = IF stepNumber >= config.maxSteps THEN "afterLoop"
                         ELSE "endOfFlow"
                /\ UNCHANGED << steps, events >>
  /\ UNCHANGED << engine, config, flow, browser, dom, stepNumber,
                  pageContentHashes, selectedOption, thrown, completedSteps,
                  failedSteps, reportsStore, report, hashLog, interactions,
                  closeCount >>
  /\ UNCHANGED screenshotsStore

\* checkForBlockers; on a block: blocked event, the error on the step, break
AutoBlockers ==
  /\ engine = "auto" /\ pc = "blockers"
  /\ BrowserOp
  /\ \E readThrows \in BOOLEAN :
       LET blockCheck == checkForBlockers(dom, readThrows)
       IN  IF blockCheck.isBlocked
           THEN /\ Emit(Event("blocked", stepNumber, blockCheck.reason))
                /\ steps' = PushError(steps, Len(steps), "BLOCKED: " \o blockCheck.reason)
                /\ pc' = "afterLoop"
           ELSE /\ pc' = "endOfFlow"
                /\ UNCHANGED << steps, events >>
  /\ UNCHANGED << engine, config, flow, browser, dom, stepNumber,
                  pageContentHashes, selectedOption, thrown, completedSteps,
                  failedSteps, reportsStore, report, hashLog, interactions,
                  closeCount >>
  /\ UNCHANGED screenshotsStore

\* An end-of-flow check that announces the final page and goes on to the
\* interaction phase of the step.
AutoEndOfFlowWithoutBreak ==
  /\ engine = "auto" /\ pc = "endOfFlow"
  /\ BrowserOp
  /\ \/ /\ isEndOfFlow(dom)
        /\ Emit(Event("info", 0, "Reached end of flow (detected final page)"))
        /\ pc' = "select" /\ UNCHANGED thrown
     \/ /\ ~isEndOfFlow(dom)
        /\ pc' = "select" /\ UNCHANGED << thrown, events >>
     \/ /\ ~StopElementVisible(dom)
        /\ Throw("page crashed")
        /\ UNCHANGED events
  /\ UNCHANGED << engine, config, flow, browser, dom, stepNumber,
                  pageContentHashes, steps, selectedOption, completedSteps,
                  failedSteps, reportsStore, report, hashLog, interactions,
                  closeCount >>
  /\ UNCHANGED screenshotsStore

\* isEndOfFlow: the body text is read, and the read may throw, only when no
\* stop element was found
AutoEndOfFlow ==
  /\ engine = "auto" /\ pc = "endOfFlow"
  /\ BrowserOp
  /\ \/ /\ isEndOfFlow(dom)
        /\ Emit(Event("info", 0, "Reached end of flow (detected final page)"))
        /\ pc' = "afterLoop" /\ UNCHANGED thrown
     \/ /\ ~isEndOfFlow(dom)
        /\ pc' = "select" /\ UNCHANGED << thrown, events >>
     \/ /\ ~StopElementVisible(dom)
        /\ Throw("page crashed")
        /\ UNCHANGED events
  /\ UNCHANGED << engine, config, flow, browser, dom, stepNumber,
                  pageContentHashes, steps, selectedOption, completedSteps,
                  failedSteps, reportsStore, report, hashLog, interactions,
                  closeCount >>
  /\ UNCHANGED screenshotsStore

\* What the site shows after a click on element k: the same page with the
\* click registered, or one of the pages the element leads to.
AfterClick(d, k, marks) ==
  {[d EXCEPT !.selected = @ \cup marks]} \cup { FreshDom(q) : q \in ElemsOf(d)[k].to }

\* selectOptionOnPage; option-selected; page.waitForTimeout(800)
AutoSelect ==
  /\ engine = "auto" /\ pc = "select"
  /\ BrowserOp
  /\ \E failing \in SUBSET (1..Len(ElemsOf(dom))) :
       LET r == selectOptionOnPage(dom, failing)
       IN  IF r.clicked # 0
           THEN /\ Interact("select-option", {r.clicked})
                /\ dom' \in AfterClick(dom, r.clicked, {r.marks})
                /\ selectedOption' = r.label
                /\ Emit(Event("option-selected", stepNumber, r.label))
                /\ \/ pc' = "fill" /\ UNCHANGED thrown
                   \/ Throw("page crashed")
           ELSE /\ selectedOption' = ""
                /\ pc' = "fill"
                /\ UNCHANGED << dom, interactions, events, thrown >>
  /\ UNCHANGED << engine, config, flow, browser, stepNumber,
                  pageContentHashes, steps, completedSteps, failedSteps,
                  reportsStore, report, hashLog, closeCount >>
  /\ UNCHANGED screenshotsStore

\* autoFillForms when configured; form-filled; page.waitForTimeout(500);
\* step-interaction
AutoFill ==
  /\ engine = "auto" /\ pc = "fill"
  /\ IF config.autoFillForms
     THEN /\ BrowserOp
          /\ \E failing \in SUBSET (1..Len(ElemsOf(dom))) :
               LET set == autoFillForms(dom, failing)
                   filledCount == Cardinality(set)
               IN  IF filledCount > 0
                   THEN /\ Interact("fill", set)
                        /\ dom' = [dom EXCEPT !.filled = @ \cup set]
                        /\ \/ /\ Emit2(Event("form-filled", stepNumber, ToString(filledCount)),
                                       Event("step-interaction", stepNumber, ""))
                              /\ pc' = "clickNext" /\ UNCHANGED thrown
                           \/ /\ Emit(Event("form-filled", stepNumber, ToString(filledCount)))
                              /\ Throw("page crashed")
                   ELSE /\ Emit(Event("step-interaction", stepNumber, ""))
                        /\ pc' = "clickNext"
                        /\ UNCHANGED << dom, interactions, thrown >>
     ELSE /\ Emit(Event("step-interaction", stepNumber, ""))
          /\ pc' = "clickNext"
          /\ UNCHANGED << dom, interactions, thrown, usedAfterClose >>
  /\ UNCHANGED << engine, config, flow, browser, stepNumber,
                  pageContentHashes, steps, selectedOption, completedSteps,
                  failedSteps, reportsStore, report, hashLog, closeCount >>
  /\ UNCHANGED screenshotsStore

\* A run that stops whenever nothing was clicked.
StopsWithoutClickAlways(selected) == TRUE

\* if (!selectedOption) { ...; break; } in the branch without a click
StopsWithoutClick(selected) == selected = ""

\* clickNextButton; without a click the run goes on only if an option was
\* selected in this step
AutoClickNext ==
  /\ engine = "auto" /\ pc = "clickNext"
  /\ BrowserOp
  /\ \E failing \in SUBSET (1..Len(ElemsOf(dom))) :
       LET k == clickNextButton(dom, failing)
       IN  IF k # 0
           THEN /\ Interact("click-next", {k})
                /\ dom' \in AfterClick(dom, k, {})
                /\ Emit(Event("info", 0, "Clicked next/continue button"))
                /\ pc' = "settle"
           ELSE IF StopsWithoutClick(selectedOption)
           THEN /\ Emit(Event("info", 0, "No actionable button or option found, stopping evaluation"))
                /\ pc' = "afterLoop"
                /\ UNCHANGED << dom, interactions >>
           ELSE /\ pc' = "settle"
                /\ UNCHANGED << dom, interactions, events >>
  /\ UNCHANGED << engine, config, flow, browser, stepNumber,
                  pageContentHashes, steps, selectedOption, thrown,
                  completedSteps, failedSteps, reportsStore, report, hashLog,
                  closeCount >>
  /\ UNCHANGED screenshotsStore

\* page.waitForTimeout(2000), then the loop condition again
AutoSettle ==
  /\ engine = "auto" /\ pc = "settle"
  /\ BrowserOp
  /\ \/ pc' = "loop" /\ UNCHANGED thrown
     \/ Throw("page crashed")
  /\ UNCHANGED << engine, config, flow, browser, dom, stepNumber,
                  pageContentHashes, steps, selectedOption, completedSteps,
                  failedSteps, reportsStore, report, events, hashLog,
                  interactions, closeCount >>
  /\ UNCHANGED screenshotsStore

MaxStepsReached(k, maxSteps) == k >= maxSteps

\* after the loop, inside try: the maximum-steps announcement
AutoAfterLoop ==
  /\ engine = "auto" /\ pc = "afterLoop"
  /\ IF MaxStepsReached(stepNumber, config.maxSteps)
     THEN Emit(Event("info", 0, "Reached maximum steps limit"))
     ELSE UNCHANGED events
  /\ pc' = "finally"
  /\ UNCHANGED << engine, config, flow, browser, dom, stepNumber,
                  pageContentHashes, steps, selectedOption, thrown,
                  completedSteps, failedSteps, reportsStore, report, hashLog,
                  interactions, closeCount, usedAfterClose >>
  /\ UNCHANGED screenshotsStore

\* A catch block that starts the list anew with the synthesized step.
ErrorStepReplacingList(ss, k, url, message) ==
  << StepResult(k + 1, "Error", url, << message >>) >>

\* The step the catch block synthesizes.
ErrorStep(ss, k, url, message) ==
  Append(ss, StepResult(k + 1, "Error", url, << message >>))

\* catch: error event; steps.push({stepNumber: stepNumber + 1, name: "Error", ...})
AutoCatch ==
  /\ engine = "auto" /\ pc = "catch"
  /\ Emit(Event("error", 0, thrown))
  /\ steps' = ErrorStep(steps, stepNumber,
                        IF dom = NoDom THEN << "url", config.startUrl, "" >>
                        ELSE PageUrl(dom),
                        thrown)
  /\ pc' = "finally"
  /\ UNCHANGED << engine, config, flow, browser, dom, stepNumber,
                  pageContentHashes, selectedOption, thrown, completedSteps,
                  failedSteps, reportsStore, report, hashLog, interactions,
                  closeCount, usedAfterClose >>
  /\ UNCHANGED screenshotsStore

\* A run that closes the browser at the end of the try block only, so that
\* the path through catch leaves it open.
AutoFinallyCloseOnSuccess ==
  /\ engine = "auto" /\ pc = "finally"
  /\ IF browser # "null" /\ thrown = ""
     THEN /\ BrowserOp
          /\ browser' = "closed"
          /\ closeCount' = closeCount + 1
          /\ \/ pc' = "report" /\ UNCHANGED thrown
             \/ pc' = "rejected" /\ thrown' = "browser close failed"
     ELSE /\ pc' = "report"
          /\ UNCHANGED << browser, closeCount, usedAfterClose, thrown >>
  /\ UNCHANGED << engine, config, flow, dom, stepNumber, pageContentHashes,
                  steps, selectedOption, completedSteps, failedSteps,
                  reportsStore, report, events, hashLog, interactions >>
  /\ UNCHANGED screenshotsStore

\* finally: if (this.browser) await this.browser.close(); a close that
\* throws ends run() with that exception
AutoFinally ==
  /\ engine = "auto" /\ pc = "finally"
  /\ IF browser # "null"
     THEN /\ BrowserOp
          /\ browser' = "closed"
          /\ closeCount' = closeCount + 1
          /\ \/ pc' = "report" /\ UNCHANGED thrown
             \/ pc' = "rejected" /\ thrown' = "browser close failed"
     ELSE /\ pc' = "report"
          /\ UNCHANGED << browser, closeCount, usedAfterClose, thrown >>
  /\ UNCHANGED << engine, config, flow, dom, stepNumber, pageContentHashes,
                  steps, selectedOption, completedSteps, failedSteps,
                  reportsStore, report, events, hashLog, interactions >>
  /\ UNCHANGED screenshotsStore

\* e.startsWith("BLOCKED:"): of the messages a step can carry, those the
\* blocker check wrote; no message of an exception begins with that prefix.
IsBlockedError(e) == e \in { "BLOCKED: " \o BlockReasons[t] : t \in DOMAIN BlockReasons }
                       \cup { "BLOCKED: Verification input detected (code entry required)" }

\* steps.filter(test).length
Count(ss, Test(_)) == Cardinality({ i \in 1..Len(ss) : Test(ss[i]) })

NoErrors(st) == Len(st.errors) = 0

SomeErrors(st) == Len(st.errors) > 0

BlockedStep(st) == \E j \in 1..Len(st.errors) : IsBlockedError(st.errors[j])

\* A status derivation that looks at the failed steps before the blocked ones.
AutoStatusErrorsFirst(ss) ==
  IF Count(ss, SomeErrors) > 0
  THEN IF Count(ss, NoErrors) > 0 THEN "partial" ELSE "failed"
  ELSE IF Count(ss, BlockedStep) > 0 THEN "blocked"
  ELSE "completed"

\* Determine status
AutoStatus(ss) ==
  IF Count(ss, BlockedStep) > 0 THEN "blocked"
  ELSE IF Count(ss, SomeErrors) > 0
  THEN IF Count(ss, NoErrors) > 0 THEN "partial" ELSE "failed"
  ELSE "completed"

\* new URL(startUrl).hostname throws a TypeError on a string that is no URL
FlowNameThrows(c) == c.websiteName = "" /\ c.startUrl = "not a url"

\* A report whose totalSteps is the number of steps the run was allowed.
AutoReportOfAllowedTotal(ss) ==
  [id |-> evaluationId, flowId |-> "auto",
   flowName |-> IF config.websiteName # "" THEN "Auto: " \o config.websiteName
                ELSE "Auto: site.test",
   totalSteps |-> config.maxSteps, completedSteps |-> Count(ss, NoErrors),
   failedSteps |-> Count(ss, SomeErrors), status |-> AutoStatus(ss),
   steps |-> ss]

AutoReportOf(ss) ==
  [id |-> evaluationId, flowId |-> "auto",
   flowName |-> IF config.websiteName # "" THEN "Auto: " \o config.websiteName
                ELSE "Auto: site.test",
   totalSteps |-> Len(ss), completedSteps |-> Count(ss, NoErrors),
   failedSteps |-> Count(ss, SomeErrors), status |-> AutoStatus(ss),
   steps |-> ss]

\* counts, status, the report object, reportsStore.set
AutoReport ==
  /\ engine = "auto" /\ pc = "report"
  /\ IF FlowNameThrows(config)
     THEN /\ pc' = "rejected"
          /\ thrown' = "Invalid URL"
          /\ UNCHANGED << report, reportsStore >>
     ELSE /\ report' = AutoReportOf(steps)
          /\ reportsStore' = (evaluationId :> report') @@ reportsStore
          /\ pc' = "complete"
          /\ UNCHANGED thrown
  /\ UNCHANGED << engine, config, flow, browser, dom, stepNumber,
                  pageContentHashes, steps, selectedOption, completedSteps,
                  failedSteps, events, hashLog, interactions, closeCount,
                  usedAfterClose >>
  /\ UNCHANGED screenshotsStore

\* saveReport and the file write swallow what they throw; complete; return
AutoComplete ==
  /\ engine = "auto" /\ pc = "complete"
  /\ Emit(Event("complete", 0, report.status))
  /\ pc' = "returned"
  /\ UNCHANGED << engine, config, flow, browser, dom, stepNumber,
                  pageContentHashes, steps, selectedOption, thrown,
                  completedSteps, failedSteps, reportsStore, report, hashLog,
                  interactions, closeCount, usedAfterClose >>
  /\ UNCHANGED screenshotsStore

(***************************************************************************)
(* DynamicFlowEvaluator.run, first version (report written to a file, the  *)
(* fatal catch falls through) and second version (report kept in           *)
(* reportsStore, the fatal catch returns a failed report).                 *)
(***************************************************************************)
Dynamic == engine \in {"dynamicV1", "dynamicV2"}

DynStart ==
  /\ Dynamic /\ pc = "start"
  /\ Emit(Event("init", 0, "flow"))
  /\ pc' = "connect"
  /\ UNCHANGED << engine, config, flow, browser, dom, stepNumber,
                  pageContentHashes, steps, selectedOption, thrown,
                  completedSteps, failedSteps, reportsStore, report, hashLog,
                  interactions, closeCount, usedAfterClose >>
  /\ UNCHANGED screenshotsStore

\* chromium.launch (first version); connect or launch by the environment of
\* the process (second version)
DynConnect ==
  /\ Dynamic /\ pc = "connect"
  /\ \E host \in {"token", "serverless", "local"}, ok \in BOOLEAN :
       /\ engine = "dynamicV1" => host = "local"
       /\ \/ /\ host = "token" /\ ok
             /\ browser' = "open"
             /\ Emit(Event("info", 0, "Connected to cloud browser"))
             /\ pc' = "open" /\ UNCHANGED thrown
          \/ /\ host = "serverless"
             /\ Throw("Cloud browser token not configured")
             /\ UNCHANGED << browser, events >>
          \/ /\ host = "local" /\ ok
             /\ browser' = "open"
             /\ pc' = "open" /\ UNCHANGED << thrown, events >>
          \/ /\ host \in {"token", "local"} /\ ~ok
             /\ Throw("browser launch failed")
             /\ UNCHANGED << browser, events >>
  /\ UNCHANGED << engine, config, flow, dom, stepNumber, pageContentHashes,
                  steps, selectedOption, completedSteps, failedSteps,
                  reportsStore, report, hashLog, interactions, closeCount,
                  usedAfterClose >>
  /\ UNCHANGED screenshotsStore

\* browser.newContext, context.newPage, page.goto(flow.websiteUrl)
DynOpen ==
  /\ Dynamic /\ pc = "open"
  /\ BrowserOp
  /\ \/ /\ \E p \in Pages : dom' = FreshDom(p)
        /\ pc' = "flowLoop" /\ UNCHANGED thrown
     \/ /\ Throw("navigation failed")
        /\ UNCHANGED dom
  /\ UNCHANGED << engine, config, flow, browser, stepNumber,
                  pageContentHashes, steps, selectedOption, completedSteps,
                  failedSteps, reportsStore, report, events, hashLog,
                  interactions, closeCount >>
  /\ UNCHANGED screenshotsStore

\* for (let i = 0; i < this.flow.steps.length; i++) { step-start ...
DynLoop ==
  /\ Dynamic /\ pc = "flowLoop"
  /\ IF stepNumber < Len(flow)
     THEN /\ stepNumber' = stepNumber + 1
          /\ Emit(Event("step-start", stepNumber + 1, ""))
          /\ pc' = "stepBody"
     ELSE /\ pc' = "finally"
          /\ UNCHANGED << stepNumber, events >>
  /\ UNCHANGED << engine, config, flow, browser, dom, pageContentHashes,
                  steps, selectedOption, thrown, completedSteps, failedSteps,
                  reportsStore, report, hashLog, interactions, closeCount,
                  usedAfterClose >>
  /\ UNCHANGED screenshotsStore

\* The pages the actions of a scripted step can leave the browser on.
Reachable(d) ==
  {d} \cup { FreshDom(q) : q \in UNION { ElemsOf(d)[i].to : i \in 1..Len(ElemsOf(d)) } }

\* The body of a scripted step: the actions, the page data, the screenshot
\* and the push of the step; or the inner catch, which tries a screenshot,
\* pushes the step with the error and counts it as completed when the step
\* says continueOnError.  (The first version writes its screenshots to the
\* directory of the evaluation; the store stands for that directory too.)
DynStepBody ==
  /\ Dynamic /\ pc = "stepBody"
  /\ BrowserOp
  /\ dom' \in Reachable(dom)
  /\ \/ /\ screenshotsStore' = StoreScreenshot(screenshotsStore, evaluationId,
                                               stepNumber, dom'.page)
        /\ steps' = Append(steps, StepResult(stepNumber, "Flow step", PageUrl(dom'), << >>))
        /\ completedSteps' = completedSteps + 1
        /\ Emit(Event("step-complete", stepNumber, ""))
        /\ UNCHANGED failedSteps
     \/ /\ \/ screenshotsStore' = StoreScreenshot(screenshotsStore, evaluationId,
                                                  stepNumber, dom'.page)
           \/ UNCHANGED screenshotsStore
        /\ steps' = Append(steps, StepResult(stepNumber, "Flow step", PageUrl(dom'),
                                             << "action failed" >>))
        /\ IF flow[stepNumber].continueOnError
           THEN /\ completedSteps' = completedSteps + 1
                /\ Emit(Event("step-complete", stepNumber, "action failed"))
                /\ UNCHANGED failedSteps
           ELSE /\ failedSteps' = failedSteps + 1
                /\ Emit(Event("step-error", stepNumber, "action failed"))
                /\ UNCHANGED completedSteps
  /\ pc' = "flowLoop"
  /\ UNCHANGED << engine, config, flow, browser, stepNumber,
                  pageContentHashes, selectedOption, thrown, reportsStore,
                  report, hashLog, interactions, closeCount >>

\* The report the fatal catch of the second version returns.
InitializationReport(message) ==
  [id |-> evaluationId, flowId |-> "flow", flowName |-> "Flow",
   totalSteps |-> Len(flow), completedSteps |-> 0, failedSteps |-> 1,
   status |-> "failed",
   steps |-> << StepResult(0, "Initialization", << "url", "websiteUrl", "" >>,
                           << message >>) >>]

\* The outer catch.  First version: the error event, then on to the end of
\* run().  Second version: the error event, the failed report, stored and
\* returned (the finally block still runs).
DynCatch ==
  /\ Dynamic /\ pc = "catch"
  /\ Emit(Event("error", 0, thrown))
  /\ IF engine = "dynamicV2"
     THEN /\ report' = InitializationReport(thrown)
          /\ reportsStore' = (evaluationId :> report') @@ reportsStore
     ELSE UNCHANGED << report, reportsStore >>
  /\ pc' = "finally"
  /\ UNCHANGED << engine, config, flow, browser, dom, stepNumber,
                  pageContentHashes, steps, selectedOption, thrown,
                  completedSteps, failedSteps, hashLog, interactions,
                  closeCount, usedAfterClose >>
  /\ UNCHANGED screenshotsStore

\* finally: if (this.browser) await this.browser.close()
DynFinally ==
  /\ Dynamic /\ pc = "finally"
  /\ IF browser # "null"
     THEN /\ BrowserOp
          /\ browser' = "closed"
          /\ closeCount' = closeCount + 1
          /\ \/ /\ pc' = IF report # NoReport THEN "returned" ELSE "report"
                /\ UNCHANGED thrown
             \/ pc' = "rejected" /\ thrown' = "browser close failed"
     ELSE /\ pc' = IF report # NoReport THEN "returned" ELSE "report"
          /\ UNCHANGED << browser, closeCount, usedAfterClose, thrown >>
  /\ UNCHANGED << engine, config, flow, dom, stepNumber, pageContentHashes,
                  steps, selectedOption, completedSteps, failedSteps,
                  reportsStore, report, events, hashLog, interactions >>
  /\ UNCHANGED screenshotsStore

DynamicStatus(completed, failed) ==
  IF failed > 0 THEN (IF completed > 0 THEN "partial" ELSE "failed") ELSE "completed"

\* The report after the finally block; it is written to the reports
\* directory (first version; fs.writeFileSync is not guarded and what it
\* throws ends run()) or put into reportsStore (second version), both keyed
\* by the evaluation id; complete; return.
DynamicReportOf(ss) ==
  [id |-> evaluationId, flowId |-> "flow", flowName |-> "Flow",
   totalSteps |-> Len(flow), completedSteps |-> completedSteps,
   failedSteps |-> failedSteps,
   status |-> DynamicStatus(completedSteps, failedSteps), steps |-> ss]

DynReport ==
  /\ Dynamic /\ pc = "report"
  /\ \/ /\ report' = DynamicReportOf(steps)
        /\ reportsStore' = (evaluationId :> report') @@ reportsStore
        /\ Emit(Event("complete", 0, report'.status))
        /\ pc' = "returned"
        /\ UNCHANGED thrown
     \/ /\ engine = "dynamicV1"
        /\ pc' = "rejected" /\ thrown' = "report file not written"
        /\ UNCHANGED << report, reportsStore, events >>
  /\ UNCHANGED << engine, config, flow, browser, dom, stepNumber,
                  pageContentHashes, steps, selectedOption,
                  completedSteps, failedSteps, hashLog, interactions,
                  closeCount, usedAfterClose >>
  /\ UNCHANGED screenshotsStore

Next ==
  \/ AutoStart \/ AutoConnect \/ AutoNewPage \/ AutoGoto \/ AutoLoop
  \/ AutoStabilize \/ AutoFingerprint \/ AutoCollect \/ AutoBlockers
  \/ AutoEndOfFlow \/ AutoSelect \/ AutoFill \/ AutoClickNext \/ AutoSettle
  \/ AutoAfterLoop \/ AutoCatch \/ AutoFinally \/ AutoReport \/ AutoComplete
  \/ DynStart \/ DynConnect \/ DynOpen \/ DynLoop \/ DynStepBody \/ DynCatch
  \/ DynFinally \/ DynReport

Spec == Init /\ [][Next]_vars

(***************************************************************************)
(* The overall run timeout.  The route exports maxDuration = 300: the host *)
(* platform ends the invocation that carries the run when the time is up,  *)
(* wherever the run is.  Nothing of run() executes afterwards: there is no *)
(* handler for the timeout, neither in the route nor in the evaluators.    *)
(***************************************************************************)
ExternalTimeout ==
  /\ pc \notin {"returned", "rejected", "aborted"}
  /\ pc' = "aborted"
  /\ UNCHANGED << engine, config, flow, browser, dom, stepNumber,
                  pageContentHashes, steps, selectedOption, thrown,
                  completedSteps, failedSteps, reportsStore, report, events,
                  hashLog, interactions, closeCount, usedAfterClose >>
  /\ UNCHANGED screenshotsStore

NextWithTimeout == Next \/ ExternalTimeout

SpecWithTimeout == Init /\ [][NextWithTimeout]_vars

(***************************************************************************)
(* Several auto traversals in one host process.  reportsStore and          *)
(* screenshotsStore are the Maps of the module, shared by all runs; every  *)
(* other variable of a run belongs to its AutoFlowEvaluator instance or to *)
(* its call of run() and holds one value per run here.  A run is suspended *)
(* at its awaits, where the other runs may proceed; the awaits between two *)
(* accesses of the shared Maps are taken together: connect to goto, the    *)
(* start of a step up to its fingerprint, the collection of the step up to *)
(* the end of its interaction phase.                                       *)
(***************************************************************************)
Runs == 1..MaxRuns

\* this.evaluationId = uuidv4(): one id per instance
evaluationIdOf(r) == "run-" \o ToString(r)

ConcurrentConfig ==
  [maxSteps |-> ConcurrentMaxSteps, autoFillForms |-> FALSE,
   startUrl |-> "https://site.test/start", websiteName |-> "Site",
   testData |-> << >>]

\* The pages the concurrent runs are started on.
ConcurrentPages == {"welcome", "quiz"}

InitConcurrent ==
  /\ engine = "concurrent"
  /\ config = ConcurrentConfig
  /\ flow = << >>
  /\ pc = [r \in Runs |-> "connect"]
  /\ browser = [r \in Runs |-> "null"]
  /\ dom = [r \in Runs |-> NoDom]
  /\ stepNumber = [r \in Runs |-> 0]
  /\ pageContentHashes = [r \in Runs |-> {}]
  /\ steps = [r \in Runs |-> << >>]
  /\ selectedOption = ""
  /\ thrown = ""
  /\ completedSteps = 0
  /\ failedSteps = 0
  /\ reportsStore = << >>
  /\ screenshotsStore = << >>
  /\ report = NoReport
  /\ events = << >>
  /\ hashLog = << >>
  /\ interactions = << >>
  /\ closeCount = 0
  /\ usedAfterClose = FALSE

ConcurrentUnused ==
  UNCHANGED << engine, config, flow, selectedOption, thrown, completedSteps,
               failedSteps, report, events, hashLog, interactions, closeCount,
               usedAfterClose >>

\* connect or launch, newContext, newPage, goto
ConcConnect(r) ==
  /\ pc[r] = "connect"
  /\ \/ /\ browser' = [browser EXCEPT ![r] = "open"]
        /\ \/ /\ \E p \in ConcurrentPages : dom' = [dom EXCEPT ![r] = FreshDom(p)]
              /\ pc' = [pc EXCEPT ![r] = "loop"]
           \/ /\ pc' = [pc EXCEPT ![r] = "catch"]
              /\ UNCHANGED dom
     \/ /\ pc' = [pc EXCEPT ![r] = "catch"]
        /\ UNCHANGED << browser, dom >>
  /\ UNCHANGED << stepNumber, pageContentHashes, steps, reportsStore,
                  screenshotsStore >>
  /\ ConcurrentUnused

\* the loop condition, stepNumber++, the waits, the fingerprint, the loop check
ConcObserve(r) ==
  /\ pc[r] = "loop"
  /\ IF stepNumber[r] < config.maxSteps
     THEN /\ stepNumber' = [stepNumber EXCEPT ![r] = @ + 1]
          /\ LET pageHash == getPageContentHash(dom[r], FALSE)
             IN  IF LoopDetected(pageContentHashes[r], pageHash, stepNumber[r] + 1)
                 THEN /\ pc' = [pc EXCEPT ![r] = "finally"]
                      /\ UNCHANGED pageContentHashes
                 ELSE /\ pageContentHashes' =
                           [pageContentHashes EXCEPT ![r] = @ \cup {pageHash}]
                      /\ pc' = [pc EXCEPT ![r] = "collect"]
     ELSE /\ pc' = [pc EXCEPT ![r] = "finally"]
          /\ UNCHANGED << stepNumber, pageContentHashes >>
  /\ UNCHANGED << browser, dom, steps, reportsStore, screenshotsStore >>
  /\ ConcurrentUnused

\* collectPageData to takeScreenshot, steps.push, then the checks and the
\* interaction phase of the step: the run goes on, breaks, or throws.  The
\* site keeps each run on the page it was started on.
ConcCollect(r) ==
  /\ pc[r] = "collect"
  /\ \/ /\ screenshotsStore' = StoreScreenshot(screenshotsStore, evaluationIdOf(r),
                                               stepNumber[r], dom[r].page)
        /\ steps' = [steps EXCEPT ![r] =
                       Append(@, StepResult(stepNumber[r],
                                            StepName(dom[r].page, stepNumber[r]),
                                            PageUrl(dom[r]), << >>))]
        /\ \E next \in {"loop", "finally", "catch"} : pc' = [pc EXCEPT ![r] = next]
     \/ /\ pc' = [pc EXCEPT ![r] = "catch"]
        /\ UNCHANGED << screenshotsStore, steps >>
  /\ UNCHANGED << browser, dom, stepNumber, pageContentHashes, reportsStore >>
  /\ ConcurrentUnused

\* catch: the Error step
ConcCatch(r) ==
  /\ pc[r] = "catch"
  /\ steps' = [steps EXCEPT ![r] =
                 ErrorStep(@, stepNumber[r],
                           IF dom[r] = NoDom THEN << "url", config.startUrl, "" >>
                           ELSE PageUrl(dom[r]),
                           "page crashed")]
  /\ pc' = [pc EXCEPT ![r] = "finally"]
  /\ UNCHANGED << browser, dom, stepNumber, pageContentHashes, reportsStore,
                  screenshotsStore >>
  /\ ConcurrentUnused

\* finally: this.browser.close()
ConcFinally(r) ==
  /\ pc[r] = "finally"
  /\ browser' = [browser EXCEPT ![r] = IF @ = "null" THEN @ ELSE "closed"]
  /\ pc' = [pc EXCEPT ![r] = "report"]
  /\ UNCHANGED << dom, stepNumber, pageContentHashes, steps, reportsStore,
                  screenshotsStore >>
  /\ ConcurrentUnused

\* the report, reportsStore.set(this.evaluationId, report), return
ConcReport(r) ==
  /\ pc[r] = "report"
  /\ reportsStore' =
       (evaluationIdOf(r) :> [AutoReportOf(steps[r]) EXCEPT !.id = evaluationIdOf(r)])
         @@ reportsStore
  /\ pc' = [pc EXCEPT ![r] = "returned"]
  /\ UNCHANGED << browser, dom, stepNumber, pageContentHashes, steps,
                  screenshotsStore >>
  /\ ConcurrentUnused

NextConcurrent ==
  \E r \in Runs :
    \/ ConcConnect(r) \/ ConcObserve(r) \/ ConcCollect(r) \/ ConcCatch(r)
    \/ ConcFinally(r) \/ ConcReport(r)

SpecConcurrent == InitConcurrent /\ [][NextConcurrent]_vars

(***************************************************************************)
(* The heuristics on their own: a page of the catalogue is loaded and      *)
(* selectOptionOnPage, autoFillForms and clickNextButton are invoked on    *)
(* it, in any order and repeatedly; interactions is the log of the         *)
(* invocations: the page state before the call, the elements whose click   *)
(* or fill throws during the call, the elements the call acted on and the  *)
(* label it returned.  The page stays loaded: a click is registered, no    *)
(* navigation follows.                                                     *)
(***************************************************************************)
\* The testData a caller passes: none, or a dictionary with a key of its
\* own and an override of a default key.
CallerTestData ==
  { << >>,
    << Entry("workEmail", "workemail", "work@corp.test"),
       Entry("city", "city", "Austin") >> }

InitHeuristics ==
  /\ engine = "heuristics"
  /\ config \in { [NoConfig EXCEPT !.testData = t] : t \in CallerTestData }
  /\ flow = << >>
  /\ pc = "idle"
  /\ browser = "open"
  /\ dom \in { FreshDom(p) : p \in Pages }
  /\ stepNumber = 0
  /\ pageContentHashes = {}
  /\ steps = << >>
  /\ selectedOption = ""
  /\ thrown = ""
  /\ completedSteps = 0
  /\ failedSteps = 0
  /\ reportsStore = << >>
  /\ screenshotsStore = << >>
  /\ report = NoReport
  /\ events = << >>
  /\ hashLog = << >>
  /\ interactions = << >>
  /\ closeCount = 0
  /\ usedAfterClose = FALSE

HeuristicsUnused ==
  UNCHANGED << engine, config, flow, pc, browser, pageContentHashes, steps,
               thrown, completedSteps, failedSteps, reportsStore,
               screenshotsStore, report, events, hashLog, closeCount,
               usedAfterClose >>

FailingSets(d) ==
  { f \in SUBSET (1..Len(ElemsOf(d))) : Cardinality(f) <= MaxFailing }

Invocation(kind, failing, targets, label) ==
  [stepNumber |-> stepNumber + 1, kind |-> kind, page |-> dom.page,
   targets |-> targets, before |-> dom, failing |-> failing, label |-> label]

InvokeSelectOption ==
  /\ engine = "heuristics" /\ stepNumber < MaxInvocations
  /\ \E failing \in FailingSets(dom) :
       LET r == selectOptionOnPage(dom, failing)
       IN  /\ interactions' =
                Append(interactions,
                       Invocation("select-option", failing,
                                  IF r.clicked # 0 THEN {r.clicked} ELSE {}, r.label))
           /\ dom' = IF r.clicked # 0 THEN [dom EXCEPT !.selected = @ \cup {r.marks}]
                     ELSE dom
           /\ selectedOption' = r.label
  /\ stepNumber' = stepNumber + 1
  /\ HeuristicsUnused

InvokeAutoFill ==
  /\ engine = "heuristics" /\ stepNumber < MaxInvocations
  /\ \E failing \in FailingSets(dom) :
       LET set == autoFillForms(dom, failing)
       IN  /\ interactions' = Append(interactions, Invocation("fill", failing, set, ""))
           /\ dom' = [dom EXCEPT !.filled = @ \cup set]
  /\ stepNumber' = stepNumber + 1
  /\ UNCHANGED selectedOption
  /\ HeuristicsUnused

InvokeClickNext ==
  /\ engine = "heuristics" /\ stepNumber < MaxInvocations
  /\ \E failing \in FailingSets(dom) :
       LET k == clickNextButton(dom, failing)
       IN  interactions' =
             Append(interactions,
                    Invocation("click-next", failing, IF k # 0 THEN {k} ELSE {}, ""))
  /\ stepNumber' = stepNumber + 1
  /\ UNCHANGED << dom, selectedOption >>
  /\ HeuristicsUnused

NextHeuristics == InvokeSelectOption \/ InvokeAutoFill \/ InvokeClickNext

SpecHeuristics == InitHeuristics /\ [][NextHeuristics]_vars

(***************************************************************************)
(* Properties                                                              *)
(***************************************************************************)
HasEvent(type, message) ==
  \E i \in 1..Len(events) : events[i].type = type /\ events[i].message = message

EventsOfType(type) == { i \in 1..Len(events) : events[i].type = type }

LoopAnnounced ==
  HasEvent("info", "Detected page loop (same content), stopping evaluation")

EndOfFlowAnnounced == HasEvent("info", "Reached end of flow (detected final page)")

NoControlAnnounced ==
  HasEvent("info", "No actionable button or option found, stopping evaluation")

MaxStepsAnnounced == HasEvent("info", "Reached maximum steps limit")

BlockAnnounced == EventsOfType("blocked") # {}

ErrorAnnounced == EventsOfType("error") # {}

\* The causes of termination the run has announced.
Causes ==
  {"loop" : x \in {1} \cap {IF LoopAnnounced THEN 1 ELSE 0}}
    \cup {"endOfFlow" : x \in {1} \cap {IF EndOfFlowAnnounced THEN 1 ELSE 0}}
    \cup {"noControl" : x \in {1} \cap {IF NoControlAnnounced THEN 1 ELSE 0}}
    \cup {"maxSteps" : x \in {1} \cap {IF MaxStepsAnnounced THEN 1 ELSE 0}}
    \cup {"blocked" : x \in {1} \cap {IF BlockAnnounced THEN 1 ELSE 0}}
    \cup {"fatal" : x \in {1} \cap {IF ErrorAnnounced THEN 1 ELSE 0}}

\* C1: with maxSteps = N >= 1, the report of an auto traversal never holds
\* more than N steps, however the run ended.
C1_StepsWithinMaxSteps ==
  (engine = "auto" /\ pc = "returned" /\ config.maxSteps >= 1)
    => Len(report.steps) <= config.maxSteps

\* C2: a finished auto traversal has announced exactly one cause of
\* termination; in particular a run stopped by a loop, a block, the end of
\* the flow or a missing control has not also announced the maximum-steps limit.
C2_ExactlyOneCause ==
  (engine = "auto" /\ pc = "returned") => Cardinality(Causes) = 1

\* The status the specification derives from a step list.
SpecifiedStatus(ss) ==
  IF \E i \in 1..Len(ss) : BlockedStep(ss[i]) THEN "blocked"
  ELSE IF Count(ss, NoErrors) = 0 THEN "failed"
  ELSE IF Count(ss, SomeErrors) > 0 THEN "partial"
  ELSE "completed"

\* C3: the status of every report of the auto traversal is blocked if a step
\* recorded a block, else failed if no step is free of errors (a report
\* without steps included), else partial if some step has errors, else
\* completed.
C3_StatusDerivation ==
  (engine = "auto" /\ pc = "returned") => report.status = SpecifiedStatus(report.steps)

\* The recorded observations of old are those of new, in the same places; an
\* observation keeps its number, name and url, and its errors are only added to.
Extends(old, new) ==
  /\ Len(new) >= Len(old)
  /\ \A i \in 1..Len(old) :
       /\ new[i].stepNumber = old[i].stepNumber
       /\ new[i].name = old[i].name
       /\ new[i].url = old[i].url
       /\ Len(new[i].errors) >= Len(old[i].errors)
       /\ SubSeq(new[i].errors, 1, Len(old[i].errors)) = old[i].errors

\* C4: the step list is only ever extended, in every step of every run, and
\* the report a run returns holds every observation appended, in the order
\* appended.
C4_StepsOnlyExtended ==
  [][/\ Extends(steps, steps')
     /\ (pc' = "returned" => Extends(steps', report'.steps))]_vars

\* An auto traversal that recorded two steps, failed in the third and
\* returned a report.
C4_Witness ==
  /\ engine = "auto" /\ pc = "returned" /\ ErrorAnnounced
  /\ Len(report.steps) = 3
  /\ report.steps[3].name = "Error"
  /\ report.steps[1].stepNumber = 1 /\ report.steps[2].stepNumber = 2

ValidStatus == {"completed", "partial", "failed", "blocked"}

\* C5: a run of the auto traversal whose session closes without an exception
\* returns, and what it returns is a report with a valid status, stored under
\* the id of the run.
C5_RunReturnsStoredReport ==
  engine = "auto" =>
    /\ ~(pc = "rejected" /\ thrown # "browser close failed")
    /\ pc = "returned" =>
         /\ report.status \in ValidStatus
         /\ evaluationId \in DOMAIN reportsStore
         /\ reportsStore[evaluationId] = report

\* Where run() is once the loop of the auto traversal is left without an
\* exception.
AfterTheLoop == {"afterLoop", "finally", "report", "complete", "returned", "rejected"}

\* C6: a block reported at step k ends the auto traversal at step k: step k
\* is the last step, it carries the block reason among its errors, no later
\* step is started, and the report has status blocked; and a report has
\* status blocked only if a block was reported.
C6_BlockEndsRun ==
  engine = "auto" =>
    /\ \A i \in EventsOfType("blocked") :
         LET k == events[i].stepNumber
         IN  /\ stepNumber = k
             /\ pc \in AfterTheLoop
             /\ Len(steps) = k
             /\ steps[k].stepNumber = k
             /\ \E j \in 1..Len(steps[k].errors) :
                  steps[k].errors[j] = "BLOCKED: " \o events[i].message
             /\ \A j \in EventsOfType("step-start") : events[j].stepNumber <= k
             /\ pc = "returned" =>
                  /\ report.status = "blocked"
                  /\ report.steps = steps
    /\ (pc = "returned" /\ report.status = "blocked") => BlockAnnounced

\* An auto traversal that was blocked at its second step or later and
\* returned its report.
C6_Witness ==
  /\ engine = "auto" /\ pc = "returned" /\ BlockAnnounced
  /\ report.status = "blocked"
  /\ Len(report.steps) >= 2
  /\ Len(interactions) >= 1

NoInteractionInThisStep ==
  \A j \in 1..Len(interactions) : interactions[j].stepNumber < stepNumber

\* C7: in the auto traversal the two classifiers leave the page and the
\* record of interactions as they are, and once a page is classified as
\* blocked or as the end of the flow, no option click, fill, select change
\* or next-button click has happened in that step or happens afterwards.
C7_NoMutationOnTerminalPage ==
  [][engine = "auto" =>
       /\ pc \in {"blockers", "endOfFlow"} =>
            (dom' = dom /\ interactions' = interactions)
       /\ (BlockAnnounced \/ EndOfFlowAnnounced)' =>
            /\ dom' = dom /\ interactions' = interactions
            /\ NoInteractionInThisStep']_vars

\* An auto traversal that interacted with a page, reached a final page at a
\* later step and returned.
C7_Witness ==
  /\ engine = "auto" /\ pc = "returned" /\ EndOfFlowAnnounced
  /\ stepNumber >= 2
  /\ Len(interactions) >= 1
  /\ isEndOfFlow(dom)

Recurs(k) == \E j \in 1..(k - 1) : hashLog[j] = hashLog[k]

\* C8: when the fingerprint of step k > 2 of an auto traversal equals the
\* fingerprint of an earlier step, the run halts at step k: the loop is
\* announced, no step numbered k or higher is recorded or started and nothing
\* is interacted with at step k.  A loop is never announced at step 1 or 2.
C8_LoopHalts ==
  engine = "auto" =>
    /\ \A k \in 1..Len(hashLog) :
         (k > 2 /\ Recurs(k)) =>
           /\ k = Len(hashLog) /\ stepNumber = k
           /\ LoopAnnounced
           /\ pc \in AfterTheLoop
           /\ \A i \in 1..Len(steps) : steps[i].stepNumber < k
           /\ \A i \in EventsOfType("step-start") : events[i].stepNumber < k
           /\ \A i \in 1..Len(interactions) : interactions[i].stepNumber < k
    /\ LoopAnnounced => (Len(hashLog) > 2 /\ Recurs(Len(hashLog)))

\* An auto traversal whose second step showed the fingerprint of the first
\* and went on, and whose third step showed it again and halted.
C8_Witness ==
  /\ engine = "auto" /\ pc = "returned" /\ LoopAnnounced
  /\ Len(hashLog) = 3
  /\ hashLog[2] = hashLog[1] /\ hashLog[3] = hashLog[1]
  /\ Len(report.steps) = 2

\* C9: a run whose browser could not be launched or connected returns a
\* report of exactly one step, named "Initialization", that carries the
\* error message, with completedSteps 0, failedSteps 1 and status failed.
C9_LaunchFailureReport ==
  (pc = "returned" /\ browser = "null") =>
    /\ Len(report.steps) = 1
    /\ report.steps[1].name = "Initialization"
    /\ report.steps[1].errors = << thrown >>
    /\ report.completedSteps = 0
    /\ report.failedSteps = 1
    /\ report.status = "failed"

Stored == evaluationId \in DOMAIN reportsStore

CompleteAnnounced == EventsOfType("complete") # {}

\* What C10 says of the session apart from the place of the store.
SessionClosedOnce ==
  /\ closeCount <= 1
  /\ ~usedAfterClose
  /\ browser = "open" => closeCount = 0
  /\ browser = "closed" => closeCount = 1
  /\ (pc \in {"returned", "rejected"} /\ browser # "null") => browser = "closed"
  /\ CompleteAnnounced => browser # "open"

\* C10 as stated: on every exit path with a session acquired the session is
\* closed exactly once, before the report is stored and before the complete
\* event, and no browser operation follows the close.
C10_CloseBeforeStore ==
  /\ SessionClosedOnce
  /\ Stored => browser # "open"

\* C10 as amended: the same, except that the fatal path of the second
\* scripted evaluator stores its failed report before the finally block
\* closes the session.
C10_CloseOnEveryExit ==
  /\ SessionClosedOnce
  /\ (Stored /\ browser = "open") =>
       /\ engine = "dynamicV2" /\ pc = "finally"
       /\ report = InitializationReport(thrown)

\* An auto traversal that recorded a step, failed, closed its session in
\* the finally block and returned its report.
C10_Witness ==
  /\ engine = "auto" /\ pc = "returned" /\ ErrorAnnounced
  /\ browser = "closed" /\ closeCount = 1
  /\ Len(report.steps) >= 2
  /\ Stored /\ CompleteAnnounced

\* C11: when the overall run timeout ends an auto traversal that has recorded at least
\* one step, the results store holds, under the id of the run, a report with
\* the steps recorded so far.
C11_TimeoutPersistsPartialReport ==
  (engine = "auto" /\ pc = "aborted" /\ Len(steps) >= 1 /\ ~ErrorAnnounced) =>
    /\ evaluationId \in DOMAIN reportsStore
    /\ Extends(steps, reportsStore[evaluationId].steps)

\* What belongs to run r alone.
PrivateState(r) ==
  << browser[r], dom[r], stepNumber[r], pageContentHashes[r], steps[r] >>

\* C12: with several runs in one host process, interleaved at will, a step
\* of one run leaves the session, page, step counter, fingerprint set and
\* step list of every other run as they are; an entry of the screenshot
\* store or of the results store is never changed or removed once written;
\* and the entries a run adds carry its own evaluation id.
C12_RunsIsolated ==
  [][\A r \in Runs :
       /\ pc'[r] = pc[r] => PrivateState(r)' = PrivateState(r)
       /\ pc'[r] # pc[r] =>
            /\ \A key \in DOMAIN screenshotsStore :
                 /\ key \in DOMAIN screenshotsStore'
                 /\ screenshotsStore'[key] = screenshotsStore[key]
            /\ \A key \in DOMAIN screenshotsStore' \ DOMAIN screenshotsStore :
                 key[2] = evaluationIdOf(r)
            /\ \A id \in DOMAIN reportsStore :
                 /\ id \in DOMAIN reportsStore'
                 /\ reportsStore'[id] = reportsStore[id]
            /\ \A id \in DOMAIN reportsStore' \ DOMAIN reportsStore :
                 /\ id = evaluationIdOf(r)
                 /\ reportsStore'[id].steps = steps[r]]_vars

\* Two runs that took their screenshots in turn, on different pages, and
\* have both stored their reports.
C12_Witness ==
  /\ engine = "concurrent"
  /\ \A r \in {1, 2} :
       /\ pc[r] = "returned"
       /\ evaluationIdOf(r) \in DOMAIN reportsStore
       /\ Len(reportsStore[evaluationIdOf(r)].steps) = 2
       /\ screenshotKey(evaluationIdOf(r), 1) \in DOMAIN screenshotsStore
       /\ screenshotKey(evaluationIdOf(r), 2) \in DOMAIN screenshotsStore
  /\ screenshotsStore[screenshotKey(evaluationIdOf(1), 1)]
       # screenshotsStore[screenshotKey(evaluationIdOf(2), 1)]

StepClosed(i) ==
  \E j \in (i + 1)..Len(events) :
    /\ events[j].type \in {"step-complete", "step-error"}
    /\ events[j].stepNumber = events[i].stepNumber
    /\ \A m \in (i + 1)..(j - 1) : events[m].type \notin {"step-start", "complete"}

\* C13: in the event stream of a finished auto traversal, init is the first
\* event, complete is the last and occurs once, and every step-start(k) is
\* followed, before the next step-start and before complete, by a
\* step-complete(k) or a step-error(k).
C13_EventStream ==
  (engine = "auto" /\ pc = "returned") =>
    /\ events[1].type = "init"
    /\ events[Len(events)].type = "complete"
    /\ Cardinality(EventsOfType("complete")) = 1
    /\ \A i \in EventsOfType("step-start") : StepClosed(i)

\* The phrases of a control's own label: its text and, for an <input>, its value.
OwnLabel(e) == e.has \cup e.valueHas

StopLabelled(e) == \E s \in 1..Len(STOP_PATTERNS) : STOP_PATTERNS[s] \in OwnLabel(e)

\* C14: no click of selectOptionOnPage or clickNextButton ever lands on a
\* control whose own label contains a stop pattern.
C14_NeverClicksStopControl ==
  engine = "auto" =>
    \A j \in 1..Len(interactions) :
      interactions[j].kind \in {"select-option", "click-next"} =>
        \A t \in interactions[j].targets :
          ~StopLabelled(Site[interactions[j].page].elems[t])

WelcomeClicks ==
  { j \in 1..Len(interactions) :
      interactions[j].kind = "click-next" /\ interactions[j].page = "welcome" }

\* The run started on the page `welcome' (h1 "Welcome", an empty email input,
\* a "Continue" button), its one click on "Continue" was issued in step 1
\* and was answered with the page `thanks'; no other page was shown.
WelcomeThenThanks ==
  /\ Len(steps) >= 1 /\ steps[1].url = PageUrl(FreshDom("welcome"))
  /\ Cardinality(WelcomeClicks) = 1
  /\ \A j \in WelcomeClicks : interactions[j].stepNumber = 1
  /\ \A j \in 1..Len(interactions) : interactions[j].page \in {"welcome", "thanks"}
  /\ \A key \in DOMAIN screenshotsStore :
       screenshotsStore[key][2] \in {"welcome", "thanks"}
  /\ dom.page = "thanks"

\* C15: a run with maxSteps >= 2 over the site welcome -> thanks, no browser
\* failure, returns a report of exactly 2 steps with status completed,
\* completedSteps 2 and failedSteps 0; on `welcome' the control clickNextButton
\* picks is "Continue".
C15_EndToEnd ==
  /\ (engine = "auto" /\ pc = "returned" /\ config.maxSteps >= 2
        /\ ~ErrorAnnounced /\ WelcomeThenThanks) =>
       /\ Len(report.steps) = 2 /\ report.totalSteps = 2
       /\ report.status = "completed"
       /\ report.completedSteps = 2 /\ report.failedSteps = 0
  /\ (engine = "auto" /\ pc = "clickNext" /\ dom.page = "welcome") =>
       /\ clickNextButton(dom, {}) # 0
       /\ ElemsOf(dom)[clickNextButton(dom, {})].text = "Continue"

C15_Witness ==
  /\ engine = "auto" /\ pc = "returned" /\ config.maxSteps >= 2
  /\ ~ErrorAnnounced /\ WelcomeThenThanks
  /\ \E j \in 1..Len(interactions) : interactions[j].kind = "fill"
  /\ report.status = "completed" /\ Len(report.steps) = 2

\* The operations of one step, in the order of the loop body.
StepPhases ==
  << "stabilize", "fingerprint", "collect", "blockers", "endOfFlow", "select",
     "fill", "clickNext", "settle" >>

PhaseRank(p) == CHOOSE i \in 1..Len(StepPhases) : StepPhases[i] = p

InStep(p) == \E i \in 1..Len(StepPhases) : StepPhases[i] = p

InteractionRank(kind) ==
  CASE kind = "select-option" -> PhaseRank("select")
    [] kind = "fill" -> PhaseRank("fill")
    [] kind = "click-next" -> PhaseRank("clickNext")

Observed(k) == \E i \in 1..Len(steps) : steps[i].stepNumber = k /\ steps[i].name # "Error"

\* C16: within a step of the auto traversal the operations follow each other
\* in the order fingerprint and loop check, collection (the step is
\* recorded), blocker check, end check, option selection, autofill,
\* click-next, settle wait, one at a time; a step begins only at the head of
\* the loop; the fingerprint is taken and the step recorded only in their
\* phase; an interaction is issued only in its phase, after the observation
\* of the same step was recorded, and the interactions of a step are in the
\* order select, fill, click.
C16_StepOrder ==
  [][engine = "auto" =>
       /\ (InStep(pc) /\ InStep(pc') /\ pc' # pc) =>
            /\ PhaseRank(pc') = PhaseRank(pc) + 1
            /\ stepNumber' = stepNumber
       /\ (pc' = "stabilize" /\ pc # "stabilize") =>
            pc = "loop" /\ stepNumber' = stepNumber + 1
       /\ hashLog' # hashLog => pc = "fingerprint" /\ ~Observed(stepNumber)
       /\ (Len(steps') > Len(steps) /\ steps'[Len(steps')].name # "Error") =>
            /\ pc = "collect" /\ Len(hashLog) = stepNumber
            /\ \A j \in 1..Len(interactions) : interactions[j].stepNumber < stepNumber
       /\ interactions' # interactions =>
            /\ Len(interactions') = Len(interactions) + 1
            /\ Observed(stepNumber)
            /\ interactions'[Len(interactions')].stepNumber = stepNumber
            /\ InStep(pc)
            /\ InteractionRank(interactions'[Len(interactions')].kind) = PhaseRank(pc)
            /\ \A j \in 1..Len(interactions) :
                 interactions[j].stepNumber = stepNumber =>
                   InteractionRank(interactions[j].kind) < PhaseRank(pc)]_vars

IssuedIn(k, kind) ==
  \E j \in 1..Len(interactions) :
    interactions[j].stepNumber = k /\ interactions[j].kind = kind

C16_Witness ==
  /\ engine = "auto" /\ pc = "settle" /\ stepNumber = 2
  /\ Observed(1) /\ Observed(2)
  /\ IssuedIn(1, "fill") /\ IssuedIn(1, "click-next")
  /\ IssuedIn(2, "select-option") /\ IssuedIn(2, "click-next")

\* clickNextButton returned false: the step at clickNext issues no click.
ClickNextReturnsFalse ==
  engine = "auto" /\ pc = "clickNext" /\ pc' # pc /\ interactions' = interactions

\* C17 (as stated): whenever clickNextButton returns false the run leaves
\* the loop, whether or not an option was selected in the step.
C17_FalseAlwaysStops ==
  [][ClickNextReturnsFalse => pc' = "afterLoop"]_vars

\* C17: when clickNextButton returns false in a step in which no option was
\* selected, the run announces that no control was found and leaves the
\* loop, and no further step is started or recorded; when an option was
\* selected in the step, the run goes on to the settle wait without an
\* announcement.
C17_FalseStopsUnlessOptionSelected ==
  [][ /\ ClickNextReturnsFalse =>
           (IF selectedOption = ""
            THEN pc' = "afterLoop" /\ NoControlAnnounced'
            ELSE pc' = "settle" /\ events' = events)
      /\ (engine = "auto" /\ NoControlAnnounced) =>
           (/\ stepNumber' = stepNumber /\ steps' = steps /\ hashLog' = hashLog
            /\ interactions' = interactions
            /\ pc \in AfterTheLoop) ]_vars

\* Both cases happened: a run went on after a step with an option selected
\* and no control clicked, and stopped at a later step without either.
C17_Witness ==
  /\ engine = "auto" /\ pc = "returned" /\ NoControlAnnounced
  /\ Len(steps) = 2
  /\ IssuedIn(1, "select-option") /\ ~IssuedIn(1, "click-next")
  /\ ~IssuedIn(2, "select-option") /\ ~IssuedIn(2, "click-next")

\* A control clickNextButton may click: visible, enabled, no stop pattern in
\* its text, and matched by a catalogue phrase through one of the five
\* shapes or by a structural fallback selector.
Actionable(e) ==
  /\ e.visible /\ e.enabled /\ ~HasStopText(e)
  /\ \/ \E q \in 1..Len(NEXT_BUTTON_PATTERNS), shape \in 1..5 :
          MatchesShape(shape, NEXT_BUTTON_PATTERNS[q], e)
     \/ \E s \in 1..Len(fallbackSelectors) : MatchesFallback(fallbackSelectors[s], e)

ActionableOn(d) == { i \in 1..Len(ElemsOf(d)) : Actionable(ElemsOf(d)[i]) }

ClickNextCalls ==
  { j \in 1..Len(interactions) :
      interactions[j].kind = "click-next" /\ interactions[j].failing = {} }

\* C18: an invocation of clickNextButton (no click throwing) on a page with
\* an actionable control clicks an actionable control, also when an earlier
\* element matching the same selector is hidden, disabled or stop-patterned.
C18_ClicksWheneverActionable ==
  engine = "heuristics" =>
    \A j \in ClickNextCalls :
      ActionableOn(interactions[j].before) # {} =>
        /\ interactions[j].targets # {}
        /\ interactions[j].targets \subseteq ActionableOn(interactions[j].before)

\* The place of the earliest (phrase, shape) pair of the catalogue that
\* matches the element; 0 when no pair does.
PairRank(e) ==
  LET pairs == { (q - 1) * 5 + shape : q \in 1..Len(NEXT_BUTTON_PATTERNS), shape \in 1..5 }
      hits == { r \in pairs :
                  MatchesShape(((r - 1) % 5) + 1,
                               NEXT_BUTTON_PATTERNS[((r - 1) \div 5) + 1], e) }
  IN  IF hits = {} THEN 0 ELSE Min(hits)

PhraseQualifying(d) ==
  { i \in 1..Len(ElemsOf(d)) :
      LET e == ElemsOf(d)[i]
      IN  e.visible /\ e.enabled /\ ~HasStopText(e) /\ PairRank(e) # 0 }

\* C19: the control an invocation of clickNextButton clicks is, among the
\* visible, enabled, unstopped controls a catalogue phrase matches, one
\* reached by the earliest (phrase, shape) pair; so "Get Started" is clicked
\* in preference to "Next", and "Next" in preference to "Submit".
C19_CataloguePriority ==
  engine = "heuristics" =>
    \A j \in ClickNextCalls :
      LET d == interactions[j].before
      IN  (interactions[j].targets # {} /\ PhraseQualifying(d) # {}) =>
            \A t \in interactions[j].targets :
              /\ t \in PhraseQualifying(d)
              /\ \A i \in PhraseQualifying(d) :
                   PairRank(ElemsOf(d)[t]) <= PairRank(ElemsOf(d)[i])

\* The texts selectOptionOnPage can return, with their lengths in characters.
TextLengths ==
  UNION { UNION { { << Site[p].elems[i].text, Site[p].elems[i].len >>,
                    << Site[p].elems[i].head50, 50 >> } :
                  i \in 1..Len(Site[p].elems) } : p \in Pages }

TextLength(t) ==
  IF t = "" THEN 0
  ELSE IF t = "Option selected" THEN 15
  ELSE LET ns == { c[2] : c \in { c \in TextLengths : c[1] = t } }
       IN  CHOOSE n \in ns : \A m \in ns : n <= m

SelectOptionCalls ==
  { j \in 1..Len(interactions) : interactions[j].kind = "select-option" }

\* C20: an invocation of selectOptionOnPage clicks at most one element,
\* never one whose click throws; it returns a label of 1 to 50 characters
\* exactly when it clicked, and null otherwise.
C20_OneClickAndLabel ==
  engine = "heuristics" =>
    \A j \in SelectOptionCalls :
      LET call == interactions[j]
      IN  /\ Cardinality(call.targets) <= 1
          /\ call.targets \cap call.failing = {}
          /\ (call.targets # {}) <=> (call.label # "")
          /\ call.targets # {} =>
               (TextLength(call.label) >= 1 /\ TextLength(call.label) <= 50)

\* On the page `options': the first card's click throws and the second is
\* clicked; invoked again, the first card is clicked and its text of 56
\* characters comes back cut to 50.
C20_Witness ==
  /\ engine = "heuristics" /\ dom.page = "options" /\ Len(interactions) = 2
  /\ interactions[1].kind = "select-option" /\ interactions[1].failing = {1}
  /\ interactions[1].targets = {2} /\ interactions[1].label = "Choice C"
  /\ interactions[2].kind = "select-option" /\ interactions[2].targets = {1}
  /\ TextLength(interactions[2].label) = 50
  /\ ElemsOf(dom)[1].len > 50

MergedTestData == mergeTestData(DEFAULT_TEST_DATA, config.testData)

FillCalls == { j \in 1..Len(interactions) : interactions[j].kind = "fill" }

\* The page state an invocation of autoFillForms leaves.
AfterFill(call) == [call.before EXCEPT !.filled = @ \cup call.targets]

IsField(e) ==
  /\ e.visible
  /\ \/ e.tag \in {"textarea", "select"}
     \/ e.tag = "input" /\ e.type \notin {"hidden", "submit", "button", "radio", "checkbox"}

\* C21: an invocation of autoFillForms leaves every visible input, textarea
\* and select that holds a non-empty value with that value, and an
\* invocation that follows another one directly sets no field (its result
\* is 0).
C21_NoClobber ==
  engine = "heuristics" =>
    \A j \in FillCalls :
      LET call == interactions[j]
          elems == ElemsOf(call.before)
      IN  /\ \A i \in 1..Len(elems) :
               (IsField(elems[i]) /\ CurrentValue(MergedTestData, call.before, i) # "") =>
                 CurrentValue(MergedTestData, AfterFill(call), i) =
                   CurrentValue(MergedTestData, call.before, i)
          /\ (j > 1 /\ interactions[j - 1].kind = "fill"
                /\ call.failing = {} /\ interactions[j - 1].failing = {}) =>
               call.targets = {}

\* The caller's values for the keys the identifier of the element contains.
CallerValuesFor(e) ==
  { config.testData[j].value :
      j \in { j \in 1..Len(config.testData) : config.testData[j].lower \in e.ident } }

\* C22: an empty input whose identifier contains a key of the caller's
\* testData is filled with the caller's value for such a key, never with a
\* value of the default dictionary.
C22_CallerOverridesWin ==
  engine = "heuristics" =>
    \A j \in FillCalls :
      LET call == interactions[j]
          elems == ElemsOf(call.before)
      IN  \A t \in call.targets :
            (elems[t].tag # "select" /\ CallerValuesFor(elems[t]) # {}) =>
              CurrentValue(MergedTestData, AfterFill(call), t) \in CallerValuesFor(elems[t])

\* Some visible button or link of the page has a stop pattern in its text.
VisibleStopControl(d) ==
  \E i \in 1..Len(ElemsOf(d)) :
    LET e == ElemsOf(d)[i]
    IN  e.tag \in {"button", "a"} /\ e.visible /\ HasStopText(e)

\* The lower-cased body text contains a terminal-confirmation phrase.
TerminalPhraseInBody(d) ==
  \E s \in 1..Len(endPatterns) : endPatterns[s] \in Site[d.page].body

\* C23: the end-of-flow check of a step, when it returns, reports the end of
\* the flow if and only if a visible button or link has a stop pattern in
\* its text or the body contains a terminal-confirmation phrase.
C23_EndOfFlowIff ==
  [][(engine = "auto" /\ pc = "endOfFlow" /\ pc' \in {"afterLoop", "select"}) =>
       ((pc' = "afterLoop" /\ EndOfFlowAnnounced') <=>
          (VisibleStopControl(dom) \/ TerminalPhraseInBody(dom)))]_vars

\* The categories in table order.
CategoryOrder ==
  << "twoFactor", "emailVerification", "smsVerification", "captcha",
     "loginRequired", "accountWall" >>

PatternsOf(category) ==
  BLOCKING_PATTERNS[CHOOSE i \in 1..Len(BLOCKING_PATTERNS) :
                      BLOCKING_PATTERNS[i].type = category].patterns

\* The category has a pattern contained in the body or title text.
TextMatches(d, category) ==
  \E j \in 1..Len(PatternsOf(category)) :
    PatternsOf(category)[j] \in (Site[d.page].body \cup Site[d.page].titleHas)

\* The element a probe selector finds is visible.
VisibleProbeHit(d) ==
  \E s \in 1..Len(blockingInputSelectors) :
    LET found == { i \in 1..Len(ElemsOf(d)) : blockingInputSelectors[s] \in ElemsOf(d)[i].probe }
    IN  found # {} /\ ElemsOf(d)[Min(found)].visible

SpecifiedBlock(d) ==
  LET matching == { c \in 1..Len(CategoryOrder) : TextMatches(d, CategoryOrder[c]) }
  IN  IF matching # {}
      THEN [isBlocked |-> TRUE, reason |-> BlockReasons[CategoryOrder[Min(matching)]],
            type |-> CategoryOrder[Min(matching)]]
      ELSE IF VisibleProbeHit(d)
      THEN [isBlocked |-> TRUE,
            reason |-> "Verification input detected (code entry required)",
            type |-> "verificationInput"]
      ELSE NotBlocked

WaitThrewAfterClick ==
  \E i \in 1..(Len(events) - 1) :
    /\ events[i] = Event("info", 0, "Clicked next/continue button")
    /\ events[i + 1].type = "error"

HasError(step, message) == \E j \in 1..Len(step.errors) : step.errors[j] = message

StepStarted(k) == \E i \in 1..Len(events) : events[i] = Event("step-start", k, "")

\* In the scripted evaluator every step whose action threw holds the error
\* and is followed by the next step of the flow.
ScriptedStepErrorsRecorded ==
  \A i \in 1..Len(report.steps) :
    report.steps[i].errors # << >> =>
      /\ report.steps[i].stepNumber = i
      /\ i < Len(flow) => StepStarted(i + 1)

\* C25: when a single action of a step throws, the error message is on the
\* observation of that step and the run goes on with the following step:
\* in the auto traversal, after a throwing wait in step k the report holds
\* the message among the errors of step k and, if k < maxSteps, step k + 1
\* was started; in the scripted evaluator likewise for every failed action.
C25_ActionErrorOnStepRunContinues ==
  /\ (engine = "auto" /\ pc = "returned" /\ WaitThrewAfterClick) =>
       /\ \E i \in 1..Len(report.steps) :
            /\ report.steps[i].stepNumber = stepNumber
            /\ report.steps[i].name # "Error"
            /\ HasError(report.steps[i], thrown)
       /\ stepNumber < config.maxSteps => StepStarted(stepNumber + 1)
  /\ (Dynamic /\ pc = "returned" /\ ~ErrorAnnounced) => ScriptedStepErrorsRecorded

\* C26: an observation, once in the step list, is never modified: in every
\* step of a run each element of the list keeps all its fields, the error
\* list included, so that the event that announced it describes what the
\* report holds.
C26_StepImmutable ==
  [][\A i \in 1..Len(steps) : i <= Len(steps') /\ steps'[i] = steps[i]]_vars

WithoutErrors(ss) == { i \in 1..Len(ss) : ss[i].errors = << >> }

WithErrors(ss) == { i \in 1..Len(ss) : ss[i].errors # << >> }

CountsAgree(r) ==
  /\ r.totalSteps = Len(r.steps)
  /\ r.completedSteps + r.failedSteps = r.totalSteps
  /\ r.completedSteps = Cardinality(WithoutErrors(r.steps))
  /\ r.failedSteps = Cardinality(WithErrors(r.steps))

\* C27: in every report the auto traversal returns or stores,
\* completedSteps + failedSteps = totalSteps = the length of the step list,
\* completedSteps being the number of steps with an empty error list and
\* failedSteps the number of steps with a non-empty one.
C27_CountsAddUp ==
  engine = "auto" =>
    /\ pc = "returned" => CountsAgree(report)
    /\ \A id \in DOMAIN reportsStore : CountsAgree(reportsStore[id])

\* A returned report with two clean steps and a failed one.
C27_Witness ==
  /\ engine = "auto" /\ pc = "returned"
  /\ Len(report.steps) = 3
  /\ report.completedSteps = 2 /\ report.failedSteps = 1
  /\ report.steps[3].errors # << >>

Components(p) ==
  << Site[p].pathname, Site[p].h1, Site[p].h2, ButtonTexts(Site[p].elems) >>

\* The pages observed at the steps before step k of the run.
EarlierPages(k) ==
  { screenshotsStore[key][2] :
      key \in { x \in DOMAIN screenshotsStore : x[2] = evaluationId /\ x[3] < k } }

\* C28: the fingerprint depends on the pathname, the first h1, the first h2
\* and the ordered button texts only, so from step 3 on the loop check halts
\* the run on a page that agrees in these four components with a page
\* observed at an earlier step, whatever else differs between the two.
C28_AgreeingPageHalts ==
  [][(/\ engine = "auto" /\ pc = "fingerprint" /\ pc' # "fingerprint"
      /\ stepNumber > 2
      /\ \E p \in EarlierPages(stepNumber) : Components(p) = Components(dom.page))
     => pc' = "afterLoop"]_vars

\* The steps whose interaction phase reached the call of clickNextButton:
\* step-interaction(k) is emitted right before the call.
ClickNextInvoked ==
  { events[i].stepNumber :
      i \in { j \in EventsOfType("step-interaction") :
                events[j].stepNumber < stepNumber \/ pc # "clickNext" } }

\* The loop has ended and the step the run is at was left by a break or by
\* the loop condition.
LoopLeft == pc \in {"finally", "report", "complete", "returned", "rejected"}

\* The run left the loop because the loop condition failed.
EndedByMaxSteps ==
  /\ engine = "auto" /\ LoopLeft /\ thrown = ""
  /\ MaxStepsAnnounced
  /\ ~BlockAnnounced /\ ~EndOfFlowAnnounced /\ ~LoopAnnounced
  /\ ~NoControlAnnounced /\ ~ErrorAnnounced

PageRecordedAt(k) == screenshotsStore[screenshotKey(evaluationId, k)][2]

\* C29: in a run of the auto traversal that no exception cut short, every
\* recorded step that is neither blocked nor the end of the flow has had its
\* interaction phase; in a run that ends by reaching maxSteps that is every
\* recorded step, the step numbered maxSteps included: clickNextButton was invoked once per recorded step, and
\* what the last select, fill or click made of the page is neither
\* fingerprinted nor recorded (interactions of the last step act on the page
\* recorded for that step or follow it, and nothing is observed after them).
C29_InteractionInFinalStep ==
  /\ (engine = "auto" /\ thrown = "") =>
       \A i \in 1..Len(steps) :
         (/\ steps[i].errors = << >>
          /\ \/ steps[i].stepNumber < stepNumber
             \/ LoopLeft /\ ~EndOfFlowAnnounced)
         => steps[i].stepNumber \in ClickNextInvoked
  /\ EndedByMaxSteps =>
    /\ Len(steps) = IF config.maxSteps > 0 THEN config.maxSteps ELSE 0
    /\ ClickNextInvoked = { steps[i].stepNumber : i \in 1..Len(steps) }
    /\ Cardinality(ClickNextInvoked) = Len(steps)
    /\ Len(hashLog) = Len(steps)
    /\ \A i \in 1..Len(steps) : steps[i].stepNumber <= config.maxSteps
    /\ \A j \in 1..Len(interactions) :
         /\ interactions[j].stepNumber <= Len(steps)
         /\ (interactions[j].kind = "select-option"
               => interactions[j].page = PageRecordedAt(interactions[j].stepNumber))

\* A run of three steps ended by the step limit whose third step clicked
\* through to a page that no step records.
C29_Witness ==
  /\ EndedByMaxSteps /\ config.maxSteps = 3
  /\ IssuedIn(3, "click-next")
  /\ dom.page # PageRecordedAt(3)
  /\ \A i \in 1..Len(steps) : PageUrl(dom) # steps[i].url

CleanWhenCompleted(r) ==
  r.status = "completed" => \A i \in 1..Len(r.steps) : r.steps[i].errors = << >>

\* C30: a report with status completed holds no step with a non-empty error
\* list, whether the auto traversal or the scripted flow evaluator produced
\* it (a scripted step marked continueOnError whose action threw included).
C30_CompletedMeansNoErrors ==
  /\ pc = "returned" => CleanWhenCompleted(report)
  /\ \A id \in DOMAIN reportsStore : CleanWhenCompleted(reportsStore[id])

====
